---------------------------- MODULE Spec2Model ----------------------------
(***************************************************************************)
(* A model of the XION CW721 command scripts (xion-cw721-scripts).         *)
(*                                                                         *)
(* Each script is a linear async procedure wrapped in one try/catch.  A    *)
(* run is modelled as a small state machine: `script` names the entry      *)
(* point, `pc` is the position between two awaits, `calls` is the log of   *)
(* SDK / chain / file-system calls issued so far, `client` is the state of *)
(* the connection the run opened.  Remote calls draw their outcome (a      *)
(* value or a thrown error) nondeterministically.                          *)
(*                                                                         *)
(* The specifications defined:                                             *)
(*   Spec        one run of one command script                             *)
(*   SpecPoller  waitForTransaction called with arbitrary maxAttempts       *)
(*   SpecAmount  formatXionAmount / parseXionAmount on bounded inputs      *)
(*   SpecParse   parseXionAmount on display strings                        *)
(*   SpecFee     calculateFee on gas amounts                               *)
(*   SpecVerify  verifyOwnership run again against the same chain state    *)
(*   SpecAwait   a run at the grain of issuing and completing each call    *)
(*   SpecPollerLive  SpecPoller with the event loop's fairness             *)
(*   SpecSigning a signTransaction run while the chain accepts other      *)
(*               transactions of the account                               *)
(***************************************************************************)
EXTENDS Integers, Sequences, FiniteSets, TLC

VARIABLES
    script,       \* the entry point that is running
    pc,           \* position in the script; "done" when the run has ended
    env,          \* process.env: variable name -> value ("" when unset)
    argv,         \* positional arguments: argv[1] is process.argv[2], ...
    wallet,       \* "none" | "derived"
    client,       \* "none" | "open" | "closed"
    calls,        \* log of SDK / chain calls issued, in order
    console,      \* log of the diagnostics printed, in order
    exitCode,     \* process exit status (0 unless process.exit(1) ran)
    error,        \* the error that reached a catch clause (NoError if none)
    tx,           \* the transaction the lookup / the poller handed back
    txHash,       \* the hash looked up
    maxAttempts,  \* waitForTransaction's maxAttempts
    pollI,        \* waitForTransaction's loop counter i
    sleeps,       \* number of completed setTimeout delays
    pollStatus,   \* "idle" | "pending" | "found" | "exhausted" | "failed"
    amtIn,        \* amount conversion: the base-unit input
    amtDisplay,   \* amount conversion: the display string (chars)
    amtBase,      \* amount conversion: the parsed base-unit string (chars)
    gas,          \* the gas amount handed to calculateFee (a Number)
    fee,          \* the fee object calculateFee returned (NoFee before)
    sent,         \* the message last handed to the client (NoMsg before)
    file,         \* the signed-transaction file on disk (NoFile if absent)
    accountInfo,  \* what client.getAccount returned (NoAccount before)
    signerData,   \* account number and sequence client.sign signed with
    chain,        \* what the chain holds: the token's owner and token_uri,
                  \* the sequence number of the account
    reports,      \* what each verifyOwnership run printed (last: this run)
    signedTx,     \* what client.sign returned to the run that wrote `file`
    inflight      \* network calls issued and not yet completed, in order

inputs    == <<script, env, argv>>
chainVars == <<wallet, client, calls>>
runVars   == <<pc, console, exitCode, error>>
pollVars  == <<tx, txHash, maxAttempts, pollI, sleeps, pollStatus>>
amtVars   == <<amtIn, amtDisplay, amtBase>>
feeVars   == <<gas, fee>>
auxVars   == <<feeVars, sent, file, accountInfo, signerData, chain, reports, signedTx,
               inflight>>
vars == <<script, pc, env, argv, wallet, client, calls, console, exitCode,
          error, tx, txHash, maxAttempts, pollI, sleeps, pollStatus,
          amtIn, amtDisplay, amtBase, gas, fee, sent, file,
          accountInfo, signerData, chain, reports, signedTx, inflight>>

---------------------------------------------------------------------------
(* Bounds of the model.                                                    *)

\* largest maxAttempts handed to waitForTransaction under SpecPoller
MaxAttemptsBound == 5

\* waitForTransaction's default maxAttempts
DefaultMaxAttempts == 20

---------------------------------------------------------------------------
(* Values.                                                                 *)

TxHashes == {"HASH_A", "HASH_B"}

\* result codes of an indexed transaction: 0 is success, non-zero a failure
TxCodes == {0, 5}

NoTx == [found |-> FALSE, hash |-> "", code |-> 0]

IndexedTx(h, c) == [found |-> TRUE, hash |-> h, code |-> c]

NoError == [msg |-> "", hash |-> "", attempts |-> 0]

Err(m) == [msg |-> m, hash |-> "", attempts |-> 0]

\* errors a remote call can throw: one whose text holds "not found" (the
\* chain's "... not found" answers) and one whose text does not
RemoteErrors == {Err("remote: not found"), Err("remote: failure")}

\* String.prototype.includes("not found") on the messages the model knows
MessageIncludesNotFound(e) ==
    e.msg \in {"remote: not found",
               "Transaction not found after attempts",
               "MNEMONIC not found in environment variables",
               "Account not found on chain"}

\* a || b on strings: "" and undefined are falsy
Or(a, b) == IF a # "" THEN a ELSE b

Count(s, x) == Cardinality({i \in DOMAIN s : s[i] = x})

Lookups == Count(calls, "getTx")
---------------------------------------------------------------------------
(* JavaScript Numbers.                                                     *)
(*                                                                         *)
(* The helpers compute with IEEE-754 binary64 values: `/` and `*` round    *)
(* the exact result to 53 significant bits, ties to even.  A natural       *)
(* number is held as its little-endian sequence of base-1024 limbs (x[1]   *)
(* is the lowest), so that 53-bit significands and their exact products    *)
(* fit; a Number is a record [kind, neg, m, e] of value                    *)
(* (-1)^neg * m * 2^e.  Bits are numbered from 1 (the lowest).             *)

\* significant bits of a binary64 value
DoublePrecision == 53

Max(a, b) == IF a >= b THEN a ELSE b

Min(a, b) == IF a <= b THEN a ELSE b

RECURSIVE Pow2(_)
Pow2(k) == IF k = 0 THEN 1 ELSE 2 * Pow2(k - 1)

RECURSIVE Pow10(_)
Pow10(n) == IF n = 0 THEN 1 ELSE 10 * Pow10(n - 1)

\* bits of a limb
LimbBits == 10

LimbBase == Pow2(LimbBits)

RECURSIVE SmallBitLen(_)
SmallBitLen(n) == IF n = 0 THEN 0 ELSE 1 + SmallBitLen(n \div 2)

RECURSIVE Norm(_)
Norm(x) ==
    IF x = <<>> THEN <<>>
    ELSE IF x[Len(x)] = 0 THEN Norm(SubSeq(x, 1, Len(x) - 1)) ELSE x

RECURSIVE LimbsOf(_)
LimbsOf(n) == IF n = 0 THEN <<>> ELSE <<n % LimbBase>> \o LimbsOf(n \div LimbBase)

BitLen(x) ==
    IF x = <<>> THEN 0 ELSE LimbBits * (Len(x) - 1) + SmallBitLen(x[Len(x)])

Bit(x, i) ==
    LET j == (i - 1) \div LimbBits + 1
    IN  IF j > Len(x) THEN 0 ELSE (x[j] \div Pow2((i - 1) % LimbBits)) % 2

RECURSIVE MulAcc(_, _, _, _)
MulAcc(x, c, i, carry) ==
    IF i > Len(x) THEN LimbsOf(carry)
    ELSE LET t == x[i] * c + carry
         IN  <<t % LimbBase>> \o MulAcc(x, c, i + 1, t \div LimbBase)

\* x * c + a, for naturals c, a below 2^21
MulAdd(x, c, a) == Norm(MulAcc(x, c, 1, a))

MulSmall(x, c) == MulAdd(x, c, 0)

RECURSIVE DivAcc(_, _, _, _, _)
DivAcc(x, d, i, r, q) ==
    IF i = 0 THEN [q |-> Norm(q), r |-> r]
    ELSE LET t == r * LimbBase + x[i]
         IN  DivAcc(x, d, i - 1, t % d, <<t \div d>> \o q)

\* quotient and remainder of x by a natural d, 0 < d < 2^21
DivSmall(x, d) == DivAcc(x, d, Len(x), 0, <<>>)

\* x * 2^k
ShiftLeft(x, k) ==
    LET a == k \div LimbBits
        y == MulSmall(x, Pow2(k % LimbBits))
    IN  IF x = <<>> THEN <<>>
        ELSE [j \in 1..(a + Len(y)) |-> IF j <= a THEN 0 ELSE y[j - a]]

\* x \div 2^k
ShiftRight(x, k) ==
    LET a == k \div LimbBits
        o == k % LimbBits
        n == Len(x) - a
    IN  IF n <= 0 THEN <<>>
        ELSE Norm([j \in 1..n |->
                     (x[a + j] \div Pow2(o))
                     + (IF a + j + 1 <= Len(x)
                        THEN (x[a + j + 1] % Pow2(o)) * Pow2(LimbBits - o)
                        ELSE 0)])

\* x % 2^k # 0
AnyLow(x, k) ==
    LET a == k \div LimbBits
    IN  \/ \E j \in 1..Min(a, Len(x)) : x[j] # 0
        \/ a + 1 <= Len(x) /\ x[a + 1] % Pow2(k % LimbBits) # 0

RECURSIVE Inc(_)
Inc(x) ==
    IF x = <<>> THEN <<1>>
    ELSE IF x[1] < LimbBase - 1 THEN <<x[1] + 1>> \o Tail(x)
    ELSE <<0>> \o Inc(Tail(x))

NaN == [kind |-> "nan", neg |-> FALSE, m |-> <<>>, e |-> 0]

Zero(neg) == [kind |-> "zero", neg |-> neg, m |-> <<>>, e |-> 0]

Finite(neg, m, e) == [kind |-> "finite", neg |-> neg, m |-> m, e |-> e]

\* the binary64 value nearest to x * 2^e (plus, when `sticky`, a non-zero
\* amount below the lowest bit of x), ties to even.  x is normalised; with
\* `sticky` it holds more than DoublePrecision + 1 bits.
RoundToDouble(neg, x, sticky, e) ==
    IF x = <<>> THEN Zero(neg)
    ELSE IF BitLen(x) <= DoublePrecision THEN Finite(neg, x, e)
    ELSE LET s     == BitLen(x) - DoublePrecision
             top   == ShiftRight(x, s)
             rest  == sticky \/ AnyLow(x, s - 1)
             up    == Bit(x, s) = 1 /\ (rest \/ Bit(top, 1) = 1)
             m1    == IF up THEN Inc(top) ELSE top
         IN  IF BitLen(m1) > DoublePrecision
             THEN Finite(neg, ShiftRight(m1, 1), e + s + 1)
             ELSE Finite(neg, m1, e + s)

\* the Number of an integer
FromInt(n) ==
    IF n = 0 THEN Zero(FALSE)
    ELSE RoundToDouble(n < 0, LimbsOf(IF n < 0 THEN -n ELSE n), FALSE, 0)

RECURSIVE DivPow10(_, _)
\* quotient of x by 10^n, and whether the division left a remainder
DivPow10(x, n) ==
    IF n <= 6
    THEN LET qr == DivSmall(x, Pow10(n)) IN [q |-> qr.q, inexact |-> qr.r # 0]
    ELSE LET qr == DivSmall(x, Pow10(6))
             rr == DivPow10(qr.q, n - 6)
         IN  [q |-> rr.q, inexact |-> qr.r # 0 \/ rr.inexact]

\* f / 10^n, correctly rounded
FDivPow10(f, n) ==
    IF f.kind # "finite" THEN f
    ELSE LET k  == Max(0, DoublePrecision + 3 + 4 * n - BitLen(f.m))
             qr == DivPow10(ShiftLeft(f.m, k), n)
         IN  RoundToDouble(f.neg, qr.q, qr.inexact, f.e - k)

\* f * c for a Number f and a natural c, 0 < c < 2^21, correctly rounded
FMulSmall(f, c) ==
    IF f.kind # "finite" THEN f
    ELSE RoundToDouble(f.neg, MulSmall(f.m, c), FALSE, f.e)

\* an integer-valued Number as [nan, neg, bits]
IntVal(neg, bits) == [nan |-> FALSE, neg |-> neg /\ bits # <<>>, bits |-> bits]

NaNInt == [nan |-> TRUE, neg |-> FALSE, bits |-> <<>>]

\* Math.floor: the largest integer not above f
MathFloor(f) ==
    CASE f.kind = "nan"  -> NaNInt
      [] f.kind = "zero" -> IntVal(FALSE, <<>>)
      [] OTHER ->
           IF f.e >= 0 THEN IntVal(f.neg, ShiftLeft(f.m, f.e))
           ELSE IF f.neg /\ AnyLow(f.m, -f.e)
                THEN IntVal(TRUE, Inc(ShiftRight(f.m, -f.e)))
                ELSE IntVal(f.neg, ShiftRight(f.m, -f.e))

\* Math.ceil: the smallest integer not below f
MathCeil(f) ==
    CASE f.kind = "nan"  -> NaNInt
      [] f.kind = "zero" -> IntVal(FALSE, <<>>)
      [] OTHER ->
           IF f.e >= 0 THEN IntVal(f.neg, ShiftLeft(f.m, f.e))
           ELSE IF ~f.neg /\ AnyLow(f.m, -f.e)
                THEN IntVal(FALSE, Inc(ShiftRight(f.m, -f.e)))
                ELSE IntVal(f.neg, ShiftRight(f.m, -f.e))

RECURSIVE LimbsLess(_, _, _)
\* x < y for naturals of equal length, decided from limb i downwards
LimbsLess(x, y, i) ==
    IF i = 0 THEN FALSE
    ELSE IF x[i] # y[i] THEN x[i] < y[i]
    ELSE LimbsLess(x, y, i - 1)

NatLess(x, y) ==
    IF Len(x) # Len(y) THEN Len(x) < Len(y) ELSE LimbsLess(x, y, Len(x))

\* f < g on integer-valued Numbers (false when either is NaN)
NumLess(f, g) ==
    LET a == MathFloor(f)
        b == MathFloor(g)
    IN  IF a.nan \/ b.nan THEN FALSE
        ELSE IF a.neg # b.neg THEN a.neg
        ELSE IF a.neg THEN NatLess(b.bits, a.bits)
        ELSE NatLess(a.bits, b.bits)

---------------------------------------------------------------------------
(* Strings are sequences of one-character strings.                         *)

DigitChars == <<"0", "1", "2", "3", "4", "5", "6", "7", "8", "9">>

IsDigit(c) == \E d \in 1..10 : DigitChars[d] = c

DigitVal(c) == (CHOOSE d \in 1..10 : DigitChars[d] = c) - 1

RECURSIVE DecAcc(_, _)
DecAcc(x, acc) ==
    IF x = <<>> THEN acc
    ELSE LET qr == DivSmall(x, 10)
         IN  DecAcc(qr.q, <<DigitChars[qr.r + 1]>> \o acc)

\* the decimal digits of a natural number ("0" for zero)
DecDigits(x) == IF Norm(x) = <<>> THEN <<"0">> ELSE DecAcc(Norm(x), <<>>)

\* Number.prototype.toString of an integer-valued Number (below 1e21)
IntToString(v) ==
    IF v.nan THEN <<"N", "a", "N">>
    ELSE (IF v.neg THEN <<"-">> ELSE <<>>) \o DecDigits(v.bits)

RECURSIVE PadLeft(_, _)
PadLeft(s, n) == IF Len(s) >= n THEN s ELSE PadLeft(<<"0">> \o s, n)

\* Number.prototype.toFixed(digits), for |f| < 1e21: let n be the integer
\* for which n / 10^digits - f is as close to zero as possible (the larger
\* n when there are two), then print n with a point before its last
\* `digits` digits.
ToFixed(f, digits) ==
    IF f.kind = "nan" THEN <<"N", "a", "N">>
    ELSE LET p  == IF f.kind = "zero" THEN <<>> ELSE MulSmall(f.m, Pow10(digits))
             n  == IF f.e >= 0 THEN ShiftLeft(p, f.e)
                   ELSE IF Bit(p, -f.e) = 1 THEN Inc(ShiftRight(p, -f.e))
                   ELSE ShiftRight(p, -f.e)
             ds == PadLeft(DecDigits(n), digits + 1)
             k  == Len(ds) - digits
         IN  (IF f.neg /\ f.kind = "finite" THEN <<"-">> ELSE <<>>)
             \o SubSeq(ds, 1, k) \o <<".">> \o SubSeq(ds, k + 1, Len(ds))

RECURSIVE DigitRun(_, _)
\* the length of the run of digits of s that starts at position i
DigitRun(s, i) ==
    IF i <= Len(s) /\ IsDigit(s[i]) THEN 1 + DigitRun(s, i + 1) ELSE 0

RECURSIVE DigitsToNat(_, _, _, _)
\* acc followed by the n digits of s from position i, as a natural number
DigitsToNat(s, i, n, acc) ==
    IF n = 0 THEN acc
    ELSE DigitsToNat(s, i + 1, n - 1, MulAdd(acc, 10, DigitVal(s[i])))

\* parseFloat: the longest prefix of s that is a decimal literal
\* ([+-] digits [. digits], or [+-] . digits), as the nearest Number; NaN
\* when there is none.  (Exponents and "Infinity" are not among the inputs.)
ParseFloat(s) ==
    LET signed == Len(s) >= 1 /\ s[1] \in {"-", "+"}
        neg    == Len(s) >= 1 /\ s[1] = "-"
        i0     == IF signed THEN 2 ELSE 1
        nInt   == DigitRun(s, i0)
        dot    == i0 + nInt <= Len(s) /\ s[i0 + nInt] = "."
        nFrac  == IF dot THEN DigitRun(s, i0 + nInt + 1) ELSE 0
        all    == DigitsToNat(s, i0 + nInt + 1, nFrac,
                              DigitsToNat(s, i0, nInt, <<>>))
    IN  IF nInt + nFrac = 0 THEN NaN
        ELSE IF all = <<>> THEN Zero(neg)
        ELSE FDivPow10(Finite(neg, all, 0), nFrac)

\* parseInt (radix 10): the leading run of digits, NaN when there is none
ParseInt(s) ==
    LET signed == Len(s) >= 1 /\ s[1] \in {"-", "+"}
        neg    == Len(s) >= 1 /\ s[1] = "-"
        i0     == IF signed THEN 2 ELSE 1
        n      == DigitRun(s, i0)
        b      == DigitsToNat(s, i0, n, <<>>)
    IN  IF n = 0 THEN NaN
        ELSE IF b = <<>> THEN Zero(neg) ELSE RoundToDouble(neg, b, FALSE, 0)

---------------------------------------------------------------------------
(* helpers.js: amount conversion                                           *)

\* XION_CONFIG.decimals
decimals == 6

\* a JavaScript value handed to the conversions: a string or a Number
JsStr(chars) == [str |-> TRUE, chars |-> chars, num |-> NaN]

JsNum(f) == [str |-> FALSE, chars |-> <<>>, num |-> f]

\* formatXionAmount(amount):
\*   numAmount = typeof amount === "string" ? parseInt(amount) : amount
\*   (numAmount / Math.pow(10, XION_CONFIG.decimals)).toFixed(6)
formatXionAmount(amount) ==
    LET numAmount == IF amount.str THEN ParseInt(amount.chars) ELSE amount.num
    IN  ToFixed(FDivPow10(numAmount, decimals), 6)

\* parseXionAmount(amount):
\*   numAmount = typeof amount === "string" ? parseFloat(amount) : amount
\*   Math.floor(numAmount * Math.pow(10, XION_CONFIG.decimals)).toString()
parseXionAmount(amount) ==
    LET numAmount == IF amount.str THEN ParseFloat(amount.chars) ELSE amount.num
    IN  IntToString(MathFloor(FMulSmall(numAmount, Pow10(decimals))))

---------------------------------------------------------------------------
(* helpers.js: gas and fees                                                *)

RECURSIVE AddAcc(_, _, _, _)
AddAcc(x, y, i, carry) ==
    IF i > Len(x) /\ i > Len(y) THEN LimbsOf(carry)
    ELSE LET t == (IF i <= Len(x) THEN x[i] ELSE 0)
                  + (IF i <= Len(y) THEN y[i] ELSE 0) + carry
         IN  <<t % LimbBase>> \o AddAcc(x, y, i + 1, t \div LimbBase)

\* x + y
AddNat(x, y) == Norm(AddAcc(x, y, 1, 0))

RECURSIVE MulNat(_, _)
\* x * y
MulNat(x, y) ==
    IF x = <<>> \/ y = <<>> THEN <<>>
    ELSE AddNat(MulSmall(x, y[1]),
                LET rest == MulNat(x, Tail(y))
                IN  IF rest = <<>> THEN <<>> ELSE <<0>> \o rest)

\* f * g, correctly rounded
FMul(f, g) ==
    IF f.kind = "nan" \/ g.kind = "nan" THEN NaN
    ELSE IF f.kind = "zero" \/ g.kind = "zero" THEN Zero(f.neg # g.neg)
    ELSE RoundToDouble(f.neg # g.neg, MulNat(f.m, g.m), FALSE, f.e + g.e)

\* the Number of an integer value (the result of Math.floor / Math.ceil)
NumOfInt(v) ==
    IF v.nan THEN NaN
    ELSE IF v.bits = <<>> THEN Zero(v.neg)
    ELSE RoundToDouble(v.neg, v.bits, FALSE, 0)

\* XION_CONFIG.gasPrice: "0.025uxion"
gasPrice == <<"0", ".", "0", "2", "5", "u", "x", "i", "o", "n">>

\* XION_CONFIG.gasAdjustment: 1.3
gasAdjustment == ParseFloat(<<"1", ".", "3">>)

\* XION_CONFIG.denom
denom == "uxion"

NoFee == [amount |-> <<>>, gas |-> <<>>]

\* (variant) a fee rounded down
calculateFeeRoundedDown(gasAmount) ==
    [amount |-> <<[denom |-> denom,
                   amount |-> IntToString(MathFloor(FMul(gasAmount, ParseFloat(gasPrice))))]>>,
     gas |-> IntToString(MathFloor(gasAmount))]

\* calculateFee(gasAmount):
\*   const gasPrice = parseFloat(XION_CONFIG.gasPrice);
\*   const feeAmount = Math.ceil(gasAmount * gasPrice);
\*   return { amount: [{ denom, amount: feeAmount.toString() }],
\*            gas: gasAmount.toString() }
calculateFee(gasAmount) ==
    LET price     == ParseFloat(gasPrice)
        feeAmount == MathCeil(FMul(gasAmount, price))
    IN  [amount |-> <<[denom |-> denom, amount |-> IntToString(feeAmount)]>>,
         gas |-> IntToString(MathFloor(gasAmount))]

\* simulateTransaction, after `gasEstimate = await client.simulate(...)`:
\*   return Math.ceil(gasEstimate * XION_CONFIG.gasAdjustment)
AdjustedGas(gasEstimate) == NumOfInt(MathCeil(FMul(gasEstimate, gasAdjustment)))

---------------------------------------------------------------------------
(* Leaving a run.                                                          *)

\* handleError: print the message (and the stack), then process.exit(1)
HandleError(e) ==
    /\ console' = Append(console, "Error occurred:")
    /\ exitCode' = 1
    /\ error' = e
    /\ pc' = "done"

\* (variant) a catch clause that sends every error to handleError
CatchAlwaysFatal(e, line) == HandleError(e)

\* the catch clause of monitorTransaction and of verifyOwnership: an error
\* whose message includes "not found" is reported and the function returns;
\* any other error goes to handleError
CatchNotFound(e, line) ==
    IF MessageIncludesNotFound(e)
    THEN /\ console' = Append(console, line)
         /\ error' = e
         /\ pc' = "done"
         /\ UNCHANGED exitCode
    ELSE HandleError(e)

\* waitForTransaction called on its own has no catch clause: the error
\* propagates to the caller as is
Propagate(e) ==
    /\ error' = e
    /\ pc' = "done"
    /\ UNCHANGED <<console, exitCode>>

\* the catch clause the running script wraps its body in
Catch(e) ==
    CASE script = "monitorTransaction" ->
             CatchNotFound(e, "Transaction not found! Please verify the transaction hash")
      [] script = "verifyOwnership" ->
             CatchNotFound(e, "Error: Token not found!")
      [] script = "waitForTransaction" -> Propagate(e)
      [] OTHER -> HandleError(e)

\* an early `return` after printing `line`
Return(line) ==
    /\ console' = Append(console, line)
    /\ pc' = "done"
    /\ UNCHANGED <<exitCode, error>>

\* the run prints `lines` and goes on at `next`
Goto(next, lines) ==
    /\ pc' = next
    /\ console' = console \o lines
    /\ UNCHANGED <<exitCode, error>>

Run(s, at) == script = s /\ pc = at

---------------------------------------------------------------------------
(* Steps the scripts share.  Each one sets wallet, client, calls and the   *)
(* run variables.                                                          *)

\* a parameter check: if (!value) { console.error(line); return; }
Require(ok, line, next) ==
    /\ IF ok THEN Goto(next, <<>>) ELSE Return(line)
    /\ UNCHANGED chainVars

\* (variant) a loadWallet that derives a wallet without looking at MNEMONIC
LoadWalletUnchecked(next, withAccount) ==
    /\ calls' = calls \o <<"fromMnemonic", "getAccounts">>
    /\ wallet' = "derived"
    /\ Goto(next, <<>>)
    /\ UNCHANGED client

\* const wallet = await loadWallet();
\* const account = await getFirstAccount(wallet);     (when withAccount)
LoadWallet(next, withAccount) ==
    IF env["MNEMONIC"] = ""
    THEN \* loadWallet throws before createWalletFromMnemonic is called
         /\ Catch(Err("MNEMONIC not found in environment variables"))
         /\ UNCHANGED chainVars
    ELSE \/ /\ calls' = calls \o (IF withAccount
                                  THEN <<"fromMnemonic", "getAccounts">>
                                  ELSE <<"fromMnemonic">>)
            /\ wallet' = "derived"
            /\ Goto(next, <<>>)
            /\ UNCHANGED client
         \/ \* DirectSecp256k1HdWallet.fromMnemonic rejects the phrase
            /\ calls' = Append(calls, "fromMnemonic")
            /\ Catch(Err("Invalid mnemonic format"))
            /\ UNCHANGED <<wallet, client>>

\* const client = await connectSigningClient(wallet)   (kind "connectSigning")
\* const client = await connectQueryClient()           (kind "connectQuery")
Connect(kind, next, lines) ==
    /\ calls' = Append(calls, kind)
    /\ \/ client' = "open" /\ Goto(next, lines)
       \/ \E e \in RemoteErrors : Catch(e) /\ UNCHANGED client
    /\ UNCHANGED wallet

\* await <a call on the open client>: it yields or it throws
RemoteCall(name, next, lines) ==
    /\ calls' = Append(calls, name)
    /\ \/ Goto(next, lines)
       \/ \E e \in RemoteErrors : Catch(e)
    /\ UNCHANGED <<wallet, client>>

\* the closing lines of a script: results are printed, client.disconnect()
Finish(log, lines) ==
    /\ calls' = Append(log, "disconnect")
    /\ client' = "closed"
    /\ console' = console \o lines
    /\ pc' = "done"
    /\ UNCHANGED <<wallet, exitCode, error>>

\* the last await of a script, followed by its closing lines
LastCall(name, lines) ==
    \/ Finish(Append(calls, name), lines)
    \/ \E e \in RemoteErrors :
          /\ calls' = Append(calls, name)
          /\ Catch(e)
          /\ UNCHANGED <<wallet, client>>

---------------------------------------------------------------------------
(* monitorTransaction, after the lookup: the rest of the script runs       *)
(* without another await.  `log` is the call log including the lookup.     *)

\* (variant) a status line that ignores the result code
StatusLineIgnoringCode(t) == "Status: SUCCESS"

StatusLine(t) == IF t.code = 0 THEN "Status: SUCCESS" ELSE "Status: FAILED"

\* (variant) a monitor that goes on to the details when the lookup gave
\* nothing
mon_AfterTxWithoutNullCheck(t, log) ==
    /\ tx' = t
    /\ Finish(log, <<"TRANSACTION FOUND", StatusLine(t)>>)

\* if (!tx) { console.log("Transaction not found!"); ...; return; }
\* otherwise the details are printed and the client disconnects
mon_AfterTx(t, log) ==
    /\ tx' = t
    /\ IF ~t.found
       THEN \* if (!tx) { ...; return; }   -- the client stays connected
            /\ console' = Append(console, "Transaction not found!")
            /\ calls' = log
            /\ pc' = "done"
            /\ UNCHANGED <<wallet, client, exitCode, error>>
       ELSE Finish(log, <<"TRANSACTION FOUND", StatusLine(t)>>)

---------------------------------------------------------------------------
(* waitForTransaction(client, txHash, maxAttempts = 20, delayMs = 1000)    *)

\* (variant) a poller that looks the transaction up once more before it
\* returns
wft_ReturnAfterRetry(t, log) ==
    /\ pollStatus' = "found"
    /\ tx' = t
    /\ calls' = Append(log, "getTx")
    /\ pc' = "done"
    /\ UNCHANGED <<console, exitCode, error, wallet, client>>

\* (variant) a poller that retries a lookup that threw before it gives up
wft_LookupRetryingErrors ==
    /\ pc = "wft_loop"
    /\ pollI < maxAttempts
    /\ \/ /\ calls' = Append(calls, "getTx")
          /\ Goto("wft_sleep", <<>>)
          /\ UNCHANGED <<wallet, client, tx, pollStatus>>
       \/ \E e \in RemoteErrors :
             /\ calls' = calls \o <<"getTx", "getTx">>
             /\ pollStatus' = "failed"
             /\ Catch(e)
             /\ UNCHANGED <<wallet, client, tx>>
    /\ UNCHANGED <<inputs, txHash, maxAttempts, pollI, sleeps, amtVars, auxVars>>

\* (variant) a poller that gives up one attempt early
wft_ExhaustedEarly ==
    /\ pc = "wft_loop"
    /\ ~(pollI + 1 < maxAttempts)
    /\ pollStatus' = "exhausted"
    /\ Catch([msg |-> "Transaction not found after attempts", hash |-> txHash,
              attempts |-> maxAttempts])
    /\ UNCHANGED <<inputs, chainVars, tx, txHash, maxAttempts, pollI, sleeps, amtVars, auxVars>>

\* `return tx` to the caller
wft_Return(t, log) ==
    /\ pollStatus' = "found"
    /\ IF script = "monitorTransaction"
       THEN mon_AfterTx(t, log)
       ELSE /\ tx' = t
            /\ calls' = log
            /\ pc' = "done"
            /\ UNCHANGED <<console, exitCode, error, wallet, client>>

\* for (i < maxAttempts) { const tx = await getTransaction(client, txHash);
\*   if (tx) return tx;
wft_Lookup ==
    /\ pc = "wft_loop"
    /\ pollI < maxAttempts
    /\ \/ \* the lookup yields null: go on to the delay
          /\ calls' = Append(calls, "getTx")
          /\ Goto("wft_sleep", <<>>)
          /\ UNCHANGED <<wallet, client, tx, pollStatus>>
       \/ \* the lookup yields a transaction (whatever its result code)
          \E c \in TxCodes :
             wft_Return(IndexedTx(txHash, c), Append(calls, "getTx"))
       \/ \* the lookup throws: nothing in the loop catches it
          \E e \in RemoteErrors :
             /\ calls' = Append(calls, "getTx")
             /\ pollStatus' = "failed"
             /\ Catch(e)
             /\ UNCHANGED <<wallet, client, tx>>
    /\ UNCHANGED <<inputs, txHash, maxAttempts, pollI, sleeps, amtVars, auxVars>>

\* (variant) a delay whose promise is never resolved
wft_SleepNeverResolved ==
    /\ pc = "wft_sleep"
    /\ UNCHANGED vars

\*   await new Promise((resolve) => setTimeout(resolve, delayMs)); } i++
wft_Sleep ==
    /\ pc = "wft_sleep"
    /\ sleeps' = sleeps + 1
    /\ pollI' = pollI + 1
    /\ Goto("wft_loop", <<>>)
    /\ UNCHANGED <<inputs, chainVars, tx, txHash, maxAttempts, pollStatus, amtVars, auxVars>>

NotIndexedError(h, n) ==
    [msg |-> "Transaction not found after attempts", hash |-> h, attempts |-> n]

\* throw new Error(`Transaction ${txHash} not found after ${maxAttempts} attempts`)
wft_Exhausted ==
    /\ pc = "wft_loop"
    /\ ~(pollI < maxAttempts)
    /\ pollStatus' = "exhausted"
    /\ Catch(NotIndexedError(txHash, maxAttempts))
    /\ UNCHANGED <<inputs, chainVars, tx, txHash, maxAttempts, pollI, sleeps, amtVars, auxVars>>

---------------------------------------------------------------------------
(* monitor-transaction.js                                                  *)

mon_TX_HASH == Or(env["TX_HASH"], argv[1])

mon_WAIT_FOR_TX == env["WAIT"] = "true" \/ argv[2] = "--wait"

mon_Validate ==
    /\ Run("monitorTransaction", "start")
    /\ Require(mon_TX_HASH # "", "Error: Transaction hash not provided!", "mon_connect")
    /\ txHash' = mon_TX_HASH
    /\ UNCHANGED <<inputs, tx, maxAttempts, pollI, sleeps, pollStatus, amtVars, auxVars>>

\* (variant) a monitor that polls whether or not the wait flag is given
mon_ConnectAlwaysWaiting ==
    /\ Run("monitorTransaction", "mon_connect")
    /\ calls' = Append(calls, "connectQuery")
    /\ \/ /\ client' = "open"
          /\ Goto("wft_loop", <<"Waiting for transaction to be indexed (max 20 attempts)">>)
          /\ maxAttempts' = DefaultMaxAttempts
          /\ pollI' = 0
          /\ pollStatus' = "pending"
       \/ \E e \in RemoteErrors :
             /\ Catch(e)
             /\ UNCHANGED <<client, maxAttempts, pollI, pollStatus>>
    /\ UNCHANGED <<inputs, wallet, tx, txHash, sleeps, amtVars, auxVars>>

mon_Connect ==
    /\ Run("monitorTransaction", "mon_connect")
    /\ calls' = Append(calls, "connectQuery")
    /\ \/ /\ client' = "open"
          /\ IF mon_WAIT_FOR_TX
             THEN \* tx = await waitForTransaction(client, TX_HASH)
                  /\ Goto("wft_loop", <<"Waiting for transaction to be indexed (max 20 attempts)">>)
                  /\ maxAttempts' = DefaultMaxAttempts
                  /\ pollI' = 0
                  /\ pollStatus' = "pending"
             ELSE /\ Goto("mon_getTx", <<>>)
                  /\ UNCHANGED <<maxAttempts, pollI, pollStatus>>
       \/ \E e \in RemoteErrors :
             /\ Catch(e)
             /\ UNCHANGED <<client, maxAttempts, pollI, pollStatus>>
    /\ UNCHANGED <<inputs, wallet, tx, txHash, sleeps, amtVars, auxVars>>

\* tx = await getTransaction(client, TX_HASH)
mon_GetTx ==
    /\ Run("monitorTransaction", "mon_getTx")
    /\ \/ mon_AfterTx(NoTx, Append(calls, "getTx"))
       \/ \E c \in TxCodes : mon_AfterTx(IndexedTx(txHash, c), Append(calls, "getTx"))
       \/ \E e \in RemoteErrors :
             /\ calls' = Append(calls, "getTx")
             /\ Catch(e)
             /\ UNCHANGED <<wallet, client, tx>>
    /\ UNCHANGED <<inputs, txHash, maxAttempts, pollI, sleeps, pollStatus, amtVars, auxVars>>

---------------------------------------------------------------------------
(* Values the scripts read and receive.                                    *)

\* the characters of the amount strings of the model
Chars(s) ==
    CASE s = "1.5"      -> <<"1", ".", "5">>
      [] s = "0.000249" -> <<"0", ".", "0", "0", "0", "2", "4", "9">>
      [] s = "0.5"      -> <<"0", ".", "5">>
      [] s = "1.0"      -> <<"1", ".", "0">>
      [] s = "-1.5"     -> <<"-", "1", ".", "5">>
      [] s = "abc"      -> <<"a", "b", "c">>
      [] s = "0"        -> <<"0">>
      [] s = "249"      -> <<"2", "4", "9">>
      [] s = "1000000"  -> <<"1", "0", "0", "0", "0", "0", "0">>
      [] s = "2000000"  -> <<"2", "0", "0", "0", "0", "0", "0">>

\* String.prototype.toLowerCase on the selectors of the model
ToLowerCase(s) ==
    CASE s = "SEND-TOKENS" -> "send-tokens"
      [] OTHER             -> s

\* balance.amount as the chain reports it (uxion)
Balances == {"0", "249", "1000000", "2000000"}

\* JSON.parse succeeds on s
JsonParses(s) == s = "[{\"trait_type\":\"Color\",\"value\":\"Blue\"}]"

\* the rest of a run leaves everything but wallet, client, calls and the
\* run variables alone
ScriptStep == UNCHANGED <<inputs, pollVars, amtVars, auxVars>>

\* account.address of the first account of the wallet
accountAddress == "xion1account"

\* a message handed to the client: the fields the scripts fill in
Msg(kind) ==
    [kind |-> kind, sender |-> "", contract |-> "", token_id |-> "", owner |-> "",
     recipient |-> "", amount |-> <<>>, text |-> "", extension |-> {},
     bytes |-> <<>>]

NoMsg == Msg("none")

\* a step that hands message m to the client
Sends(m) ==
    /\ sent' = m
    /\ UNCHANGED <<inputs, pollVars, amtVars, feeVars, file, accountInfo, signerData, chain, reports,
                   signedTx, inflight>>

\* the chain after it accepted a transaction of the account: the sequence
\* number has advanced, and the token has the owner the transaction gave it
Accepted(c, newOwner) ==
    [c EXCEPT !.sequence = @ + 1,
              !.owner = IF newOwner = "" THEN @ ELSE newOwner]

\* a step that submits message m for execution: when the call returns the
\* chain has accepted it; when it throws the chain may or may not have
Submits(m, newOwner) ==
    /\ sent' = m
    /\ IF error' = NoError
       THEN chain' = Accepted(chain, newOwner)
       ELSE chain' \in {chain, Accepted(chain, newOwner)}
    /\ UNCHANGED <<inputs, pollVars, amtVars, feeVars, file, accountInfo, signerData,
                   reports, signedTx, inflight>>

---------------------------------------------------------------------------
(* mint-token.js                                                           *)

mint_TOKEN_ID == Or(env["TOKEN_ID"], Or(argv[1], "1"))

mint_OWNER_ADDRESS == Or(env["OWNER_ADDRESS"], argv[2])

mint_METADATA_STORAGE == Or(env["METADATA_STORAGE"], "onchain")

\* lines printed while the extension is prepared
mint_ExtensionLines ==
    IF /\ mint_METADATA_STORAGE = "onchain"
       /\ env["TOKEN_ATTRIBUTES"] # ""
       /\ ~JsonParses(env["TOKEN_ATTRIBUTES"])
    THEN <<"Warning: Could not parse TOKEN_ATTRIBUTES JSON, skipping attributes">>
    ELSE <<>>

\* (variant) an extension that carries `attributes` whenever
\* TOKEN_ATTRIBUTES is set
mint_ExtensionKeepingAttributes ==
    IF mint_METADATA_STORAGE = "onchain"
    THEN {"name", "description", "image"}
         \cup (IF env["TOKEN_ATTRIBUTES"] # "" THEN {"attributes"} ELSE {})
    ELSE {"image"}

\* the fields of `extension`
mint_Extension ==
    IF mint_METADATA_STORAGE = "onchain"
    THEN {"name", "description", "image"}
         \cup (IF env["TOKEN_ATTRIBUTES"] # "" /\ JsonParses(env["TOKEN_ATTRIBUTES"])
               THEN {"attributes"} ELSE {})
    ELSE {"image"}

\* (variant) a mint that always names the minting account as owner
mint_mintMsgOwnedByMinter ==
    [Msg("mint") EXCEPT !.contract = env["CONTRACT_ADDRESS"],
                        !.token_id = mint_TOKEN_ID,
                        !.owner = accountAddress,
                        !.extension = mint_Extension]

\* const ownerAddress = OWNER_ADDRESS || account.address;
\* const mintMsg = { mint: { token_id, owner, token_uri, extension } }
mint_mintMsg ==
    [Msg("mint") EXCEPT !.contract = env["CONTRACT_ADDRESS"],
                        !.token_id = mint_TOKEN_ID,
                        !.owner = Or(mint_OWNER_ADDRESS, accountAddress),
                        !.extension = mint_Extension]

\* (variant) a mint that does not look at CONTRACT_ADDRESS
mint_ValidateSkipped ==
    /\ Run("mintToken", "start")
    /\ Goto("mint_wallet", <<>>)
    /\ UNCHANGED chainVars
    /\ ScriptStep

mint_Validate ==
    /\ Run("mintToken", "start")
    /\ Require(env["CONTRACT_ADDRESS"] # "", "Error: CONTRACT_ADDRESS not set!", "mint_wallet")
    /\ ScriptStep

mint_LoadWallet ==
    /\ Run("mintToken", "mint_wallet")
    /\ LoadWallet("mint_connect", TRUE)
    /\ ScriptStep

mint_Connect ==
    /\ Run("mintToken", "mint_connect")
    /\ Connect("connectSigning", "mint_execute", mint_ExtensionLines)
    /\ ScriptStep

mint_Execute ==
    /\ Run("mintToken", "mint_execute")
    /\ LastCall("execute", <<"NFT minted successfully!">>)
    /\ Submits([mint_mintMsg EXCEPT !.sender = accountAddress], mint_mintMsg.owner)

---------------------------------------------------------------------------
(* transfer-nft.js                                                         *)

tnft_TOKEN_ID == Or(env["TOKEN_ID"], argv[1])

tnft_RECIPIENT == Or(env["RECIPIENT"], argv[2])

\* const transferMsg = { transfer_nft: { recipient, token_id } }
tnft_transferMsg ==
    [Msg("transfer_nft") EXCEPT !.contract = env["CONTRACT_ADDRESS"],
                                !.token_id = tnft_TOKEN_ID,
                                !.recipient = tnft_RECIPIENT]

tnft_Validate ==
    /\ Run("transferNFT", "start")
    /\ IF env["CONTRACT_ADDRESS"] = ""
       THEN Return("Error: CONTRACT_ADDRESS not set!")
       ELSE IF tnft_TOKEN_ID = ""
       THEN Return("Error: TOKEN_ID not provided!")
       ELSE IF tnft_RECIPIENT = ""
       THEN Return("Error: RECIPIENT address not provided!")
       ELSE Goto("tnft_wallet", <<>>)
    /\ UNCHANGED chainVars
    /\ ScriptStep

tnft_LoadWallet ==
    /\ Run("transferNFT", "tnft_wallet")
    /\ LoadWallet("tnft_connect", TRUE)
    /\ ScriptStep

tnft_Connect ==
    /\ Run("transferNFT", "tnft_connect")
    /\ Connect("connectSigning", "tnft_execute", <<>>)
    /\ ScriptStep

tnft_Execute ==
    /\ Run("transferNFT", "tnft_execute")
    /\ LastCall("execute", <<"NFT transferred successfully!">>)
    /\ Submits(tnft_transferMsg, tnft_RECIPIENT)

---------------------------------------------------------------------------
(* transfer-gas.js                                                         *)

tg_RECIPIENT == Or(env["RECIPIENT"], argv[1])

tg_AMOUNT == Or(env["AMOUNT"], argv[2])

\* const amountInUxion = parseXionAmount(AMOUNT)
tg_amountInUxion == parseXionAmount(JsStr(Chars(tg_AMOUNT)))

tg_Validate ==
    /\ Run("transferGas", "start")
    /\ IF tg_RECIPIENT = ""
       THEN Return("Error: RECIPIENT address not provided!")
       ELSE IF tg_AMOUNT = ""
       THEN Return("Error: AMOUNT not provided!")
       ELSE Goto("tg_wallet", <<>>)
    /\ UNCHANGED chainVars
    /\ ScriptStep

tg_LoadWallet ==
    /\ Run("transferGas", "tg_wallet")
    /\ LoadWallet("tg_connect", TRUE)
    /\ ScriptStep

tg_Connect ==
    /\ Run("transferGas", "tg_connect")
    /\ Connect("connectSigning", "tg_balance", <<>>)
    /\ ScriptStep

\* const balance = await client.getBalance(...)
\* console.log("Wallet Balance:"); console.log(`   Current: ${balance.amount} ...`)
\* if (parseInt(balance.amount) < parseInt(amountInUxion)) { ...; return; }
tg_GetBalance ==
    /\ Run("transferGas", "tg_balance")
    /\ calls' = Append(calls, "getBalance")
    /\ \/ \E b \in Balances :
             IF NumLess(ParseInt(Chars(b)), ParseInt(tg_amountInUxion))
             THEN Goto("done", <<"Wallet Balance", b, "Error: Insufficient balance!">>)
             ELSE Goto("tg_send", <<"Wallet Balance", b>>)
       \/ \E e \in RemoteErrors : Catch(e)
    /\ UNCHANGED <<wallet, client>>
    /\ ScriptStep

tg_SendTokens ==
    /\ Run("transferGas", "tg_send")
    /\ RemoteCall("sendTokens", "tg_newBalance", <<"Transfer successful!">>)
    /\ Submits([Msg("send") EXCEPT !.recipient = tg_RECIPIENT,
                                   !.amount = tg_amountInUxion], "")

tg_NewBalance ==
    /\ Run("transferGas", "tg_newBalance")
    /\ LastCall("getBalance", <<"New Balance">>)
    /\ ScriptStep

---------------------------------------------------------------------------
(* check-gas-fee.js                                                        *)

cgf_TRANSACTION_TYPE == Or(env["TX_TYPE"], Or(argv[1], "mint"))

\* TRANSACTION_TYPE.toLowerCase()
cgf_typeLower == ToLowerCase(cgf_TRANSACTION_TYPE)

\* switch (TRANSACTION_TYPE): where the run goes on and what it prints
cgf_Switch ==
    CASE cgf_typeLower = "mint" ->
             IF env["CONTRACT_ADDRESS"] = ""
             THEN [next |-> "done", lines |-> <<"Error: CONTRACT_ADDRESS required for mint simulation">>]
             ELSE [next |-> "cgf_simulate", lines |-> <<>>]
      [] cgf_typeLower = "transfer-nft" ->
             IF env["CONTRACT_ADDRESS"] = ""
             THEN [next |-> "done", lines |-> <<"Error: CONTRACT_ADDRESS required for transfer-nft simulation">>]
             ELSE [next |-> "cgf_simulate", lines |-> <<>>]
      [] cgf_typeLower \in {"send-tokens", "instantiate"} ->
             [next |-> "cgf_simulate", lines |-> <<>>]
      [] OTHER ->
             [next |-> "done", lines |-> <<"Unknown transaction type">>]

\* the message the switch builds for TRANSACTION_TYPE
cgf_messages ==
    CASE cgf_typeLower = "mint" ->
             [Msg("mint") EXCEPT !.contract = env["CONTRACT_ADDRESS"],
                                 !.token_id = "99999",
                                 !.owner = accountAddress]
      [] cgf_typeLower = "transfer-nft" ->
             [Msg("transfer_nft") EXCEPT !.contract = env["CONTRACT_ADDRESS"],
                                         !.token_id = "2",
                                         !.recipient = accountAddress]
      [] cgf_typeLower = "send-tokens" ->
             [Msg("send") EXCEPT !.recipient = accountAddress,
                                 !.amount = Chars("1000000")]
      [] cgf_typeLower = "instantiate" ->
             [Msg("instantiate") EXCEPT !.owner = accountAddress]
      [] OTHER -> NoMsg

cgf_LoadWallet ==
    /\ Run("checkGasFee", "start")
    /\ LoadWallet("cgf_connect", TRUE)
    /\ ScriptStep

\* the connection is opened, then the switch runs
cgf_Connect ==
    /\ Run("checkGasFee", "cgf_connect")
    /\ Connect("connectSigning", cgf_Switch.next, cgf_Switch.lines)
    /\ ScriptStep

\* gas units client.simulate can report
GasEstimates == {100000, 153847}

\* const gasEstimate = await simulateTransaction(client, account.address, messages);
\* const fee = calculateFee(gasEstimate);
cgf_Simulate ==
    /\ Run("checkGasFee", "cgf_simulate")
    /\ calls' = Append(calls, "simulate")
    /\ \/ \E est \in GasEstimates :
             /\ gas' = AdjustedGas(FromInt(est))
             /\ fee' = calculateFee(gas')
             /\ Goto("cgf_balance", <<"Estimated Fee">>)
       \/ \E e \in RemoteErrors : Catch(e) /\ UNCHANGED feeVars
    /\ sent' = cgf_messages
    /\ UNCHANGED <<wallet, client, inputs, pollVars, amtVars, file, accountInfo, signerData,
                   chain, reports, signedTx, inflight>>

cgf_GetBalance ==
    /\ Run("checkGasFee", "cgf_balance")
    /\ LastCall("getBalance", <<"Your Balance">>)
    /\ ScriptStep

---------------------------------------------------------------------------
(* verify-ownership.js                                                     *)

vo_TOKEN_ID == Or(env["TOKEN_ID"], argv[1])

\* { owner_of: { token_id } } and { nft_info: { token_id } }
vo_Query(kind) ==
    [Msg(kind) EXCEPT !.contract = env["CONTRACT_ADDRESS"], !.token_id = vo_TOKEN_ID]

\* what the contract can hold for the token
ChainStates ==
    [owner : {"xion1alice", "xion1bob"}, token_uri : {"ipfs://a", "ipfs://b"},
     sequence : {0}]

\* nothing printed yet about owner or metadata
NoReport == [owner |-> "", token_uri |-> ""]

\* a query step: message m is sent, the chain is left alone
vo_Sends(m) ==
    /\ sent' = m
    /\ UNCHANGED <<inputs, pollVars, amtVars, feeVars, file, accountInfo, signerData, chain, signedTx,
                   inflight>>

vo_Validate ==
    /\ Run("verifyOwnership", "start")
    /\ IF env["CONTRACT_ADDRESS"] = ""
       THEN Return("Error: CONTRACT_ADDRESS not set!")
       ELSE IF vo_TOKEN_ID = ""
       THEN Return("Error: TOKEN_ID not provided!")
       ELSE Goto("vo_connect", <<>>)
    /\ UNCHANGED chainVars
    /\ ScriptStep

\* (variant) a verification that opens a signing connection
vo_ConnectSigning ==
    /\ Run("verifyOwnership", "vo_connect")
    /\ Connect("connectSigning", "vo_owner", <<>>)
    /\ ScriptStep

vo_Connect ==
    /\ Run("verifyOwnership", "vo_connect")
    /\ Connect("connectQuery", "vo_owner", <<>>)
    /\ ScriptStep

\* const ownerResult = await queryContract(client, CONTRACT_ADDRESS, ownerQuery)
vo_OwnerOf ==
    /\ Run("verifyOwnership", "vo_owner")
    /\ calls' = Append(calls, "queryContractSmart")
    /\ \/ /\ Goto("vo_nftInfo", <<"OWNERSHIP INFORMATION", chain.owner>>)
          /\ reports' = [reports EXCEPT ![Len(reports)].owner = chain.owner]
       \/ \E e \in RemoteErrors : Catch(e) /\ UNCHANGED reports
    /\ UNCHANGED <<wallet, client>>
    /\ vo_Sends(vo_Query("owner_of"))

\* try { nftInfo = await queryContract(...) } catch (metadataError) { log }
vo_NftInfo ==
    /\ Run("verifyOwnership", "vo_nftInfo")
    /\ calls' = Append(calls, "queryContractSmart")
    /\ \/ /\ Goto("vo_tokens", <<"TOKEN METADATA", chain.token_uri>>)
          /\ reports' = [reports EXCEPT ![Len(reports)].token_uri = chain.token_uri]
       \/ /\ Goto("vo_tokens", <<"Could not fetch metadata">>)
          /\ UNCHANGED reports
    /\ UNCHANGED <<wallet, client>>
    /\ vo_Sends(vo_Query("nft_info"))

\* try { tokensResult = await queryContract(...) } catch (tokensError) { log }
\* client.disconnect()
vo_Tokens ==
    /\ Run("verifyOwnership", "vo_tokens")
    /\ \/ Finish(Append(calls, "queryContractSmart"), <<"Owner's Other Tokens">>)
       \/ Finish(Append(calls, "queryContractSmart"), <<"Could not fetch owner's tokens">>)
    /\ vo_Sends([Msg("tokens") EXCEPT !.contract = env["CONTRACT_ADDRESS"],
                                      !.owner = reports[Len(reports)].owner])
    /\ UNCHANGED reports

---------------------------------------------------------------------------
(* create-wallet.js                                                        *)

\* the phrases DirectSecp256k1HdWallet.generate(24, ...) can come up with
GeneratedMnemonics == {"abandon ... art", "zoo ... vote"}

\* (variant) a wallet generator that stores the phrase it generated
cw_GenerateStoringMnemonic ==
    /\ Run("createWallet", "start")
    /\ \/ \E mnemonic \in GeneratedMnemonics :
             /\ calls' = calls \o <<"generate", "getAccounts", "writeFile">>
             /\ wallet' = "derived"
             /\ Goto("done", <<"Wallet created successfully!", "MNEMONIC PHRASE", mnemonic>>)
             /\ file' = [path |-> ".env", accountNumber |-> -1, sequence |-> -1, txType |-> mnemonic,
                       messages |-> NoMsg, signedTxBytes |-> <<>>]
       \/ /\ calls' = Append(calls, "generate")
          /\ Catch(Err("wallet generation failed"))
          /\ UNCHANGED <<wallet, file>>
    /\ UNCHANGED client
    /\ UNCHANGED <<inputs, pollVars, amtVars, feeVars, sent, accountInfo, signerData, chain, reports,
                   signedTx, inflight>>

\* const wallet = await DirectSecp256k1HdWallet.generate(24, { prefix });
\* const accounts = await wallet.getAccounts();
\* console.log(mnemonic); ... (the function ends, nothing is disconnected)
cw_Generate ==
    /\ Run("createWallet", "start")
    /\ \/ \E mnemonic \in GeneratedMnemonics :
             /\ calls' = calls \o <<"generate", "getAccounts">>
             /\ wallet' = "derived"
             /\ Goto("done", <<"Wallet created successfully!", "MNEMONIC PHRASE", mnemonic>>)
       \/ /\ calls' = Append(calls, "generate")
          /\ Catch(Err("wallet generation failed"))
          /\ UNCHANGED wallet
    /\ UNCHANGED client
    /\ ScriptStep

---------------------------------------------------------------------------
(* deploy-contract.js                                                      *)

dc_LoadWallet ==
    /\ Run("deployContract", "start")
    /\ LoadWallet("dc_connect", TRUE)
    /\ ScriptStep

dc_Connect ==
    /\ Run("deployContract", "dc_connect")
    /\ Connect("connectSigning", "dc_balance", <<>>)
    /\ ScriptStep

\* const balance = await client.getBalance(...)
\* if (parseInt(balance.amount) === 0) { ...; return; }
dc_GetBalance ==
    /\ Run("deployContract", "dc_balance")
    /\ calls' = Append(calls, "getBalance")
    /\ \/ \E b \in Balances :
             IF ParseInt(Chars(b)).kind = "zero"
             THEN Return("Warning: Wallet has zero balance!")
             ELSE Goto("dc_instantiate", <<>>)
       \/ \E e \in RemoteErrors : Catch(e)
    /\ UNCHANGED <<wallet, client>>
    /\ ScriptStep

dc_Instantiate ==
    /\ Run("deployContract", "dc_instantiate")
    /\ LastCall("instantiate", <<"Contract deployed successfully!">>)
    /\ Submits([Msg("instantiate") EXCEPT !.sender = accountAddress], "")

---------------------------------------------------------------------------
(* sign-message.js                                                         *)

\* process.env.MESSAGE || process.argv.slice(2).join(" ")
sm_MESSAGE ==
    Or(env["MESSAGE"],
       IF argv[1] = "" /\ argv[2] = "" THEN "" ELSE "message from argv")

\* the message handed to signAmino
sm_signDoc == [Msg("sign_message") EXCEPT !.text = sm_MESSAGE]

sm_Validate ==
    /\ script \in {"signMessage", "signMessage_v2"}
    /\ pc = "start"
    /\ Require(sm_MESSAGE # "", "Error: Message not provided!", "sm_wallet")
    /\ ScriptStep

sm_LoadWallet ==
    /\ script \in {"signMessage", "signMessage_v2"}
    /\ pc = "sm_wallet"
    /\ LoadWallet(IF script = "signMessage" THEN "sm_connect" ELSE "sm2_sign", TRUE)
    /\ ScriptStep

sm_Connect ==
    /\ Run("signMessage", "sm_connect")
    /\ Connect("connectSigning", "sm_sign", <<>>)
    /\ ScriptStep

\* try { signature = await wallet.signAmino(...) } catch (err) { fallback }
\* ... client.disconnect()
sm_Sign ==
    /\ Run("signMessage", "sm_sign")
    /\ \/ Finish(Append(calls, "signAmino"), <<"SIGNATURE DETAILS">>)
       \/ Finish(Append(calls, "signAmino"),
                 <<"Signing method not available", "SIGNATURE DETAILS">>)
    /\ Sends(sm_signDoc)

\* the variant that signs without a connection:
\* const signature = await wallet.signAmino(account.address, signDoc)
sm2_Sign ==
    /\ Run("signMessage_v2", "sm2_sign")
    /\ calls' = Append(calls, "signAmino")
    /\ \/ Goto("sm2_signDirect", <<"SIGNATURE DETAILS">>)
       \/ Catch(Err("signing failed"))
    /\ UNCHANGED <<wallet, client>>
    /\ Sends(sm_signDoc)

\* const directSignature = await wallet.signAmino(account.address, directSignDoc)
sm2_SignDirect ==
    /\ Run("signMessage_v2", "sm2_signDirect")
    /\ calls' = Append(calls, "signAmino")
    /\ \/ Return("Message signed successfully!")
       \/ Catch(Err("signing failed"))
    /\ UNCHANGED <<wallet, client>>
    /\ Sends(sm_signDoc)

---------------------------------------------------------------------------
(* sign-transaction.js                                                     *)

st_TX_TYPE == Or(env["TX_TYPE"], Or(argv[1], "send-tokens"))

\* TX_TYPE.toLowerCase()
st_typeLower == ToLowerCase(st_TX_TYPE)

st_OUTPUT_FILE == Or(env["OUTPUT_FILE"], Or(argv[2], "signed-tx.json"))

\* the sequence numbers the chain can report for the account
SequenceNumbers == {0, 7}

NoAccount == [accountNumber |-> -1, sequence |-> -1]

\* encodings of signed transactions
SignedBytes == {<<10, 255, 0>>, <<128>>}

NoSigned == [kind |-> "none", bytes |-> <<>>]

\* what `await client.sign(...)` can yield: the SDK decides whether it is
\* the encoding itself (a Uint8Array) or a TxRaw object, of which `bytes`
\* is the encoding
SignResults == [kind : {"Uint8Array", "TxRaw"}, bytes : SignedBytes]

\* Array.from(txRaw): the elements of an iterable or array-like value; an
\* object that is neither gives the empty array
ArrayFrom(txRaw) == IF txRaw.kind = "Uint8Array" THEN txRaw.bytes ELSE <<>>

\* JSON.stringify of Array.from(bytes): the decimal text of each element
JsonOfBytes(bytes) == [i \in 1..Len(bytes) |-> DecDigits(LimbsOf(bytes[i]))]

RECURSIVE NatOfDigits(_, _, _)
\* JSON.parse of a number literal made of digits
NatOfDigits(s, i, acc) ==
    IF i > Len(s) THEN acc ELSE NatOfDigits(s, i + 1, 10 * acc + DigitVal(s[i]))

\* Uint8Array.from(JSON.parse(text)): each number is stored modulo 256
Uint8ArrayFrom(text) == [i \in 1..Len(text) |-> NatOfDigits(text[i], 1, 0) % 256]

NoFile ==
    [path |-> "", accountNumber |-> -1, sequence |-> -1, txType |-> "",
     messages |-> NoMsg,
     signedTxBytes |-> <<>>]

\* the messages the switch builds for TX_TYPE
st_messages ==
    CASE st_typeLower = "send-tokens" ->
             [Msg("send") EXCEPT
                 !.recipient = Or(env["RECIPIENT"], "xion1qka2er800suxsy7y9yz9wqgt8p3ktw5ptpf28s"),
                 !.amount = parseXionAmount(JsStr(Chars(Or(env["AMOUNT"], "1.0"))))]
      [] st_typeLower = "mint-nft" ->
             [Msg("mint") EXCEPT !.contract = env["CONTRACT_ADDRESS"],
                                 !.token_id = Or(env["TOKEN_ID"], "1"),
                                 !.owner = accountAddress,
                                 !.extension = {"name", "description", "image"}]
      [] st_typeLower = "transfer-nft" ->
             [Msg("transfer_nft") EXCEPT !.contract = env["CONTRACT_ADDRESS"],
                                         !.token_id = Or(env["TOKEN_ID"], "1"),
                                         !.recipient = env["RECIPIENT"]]
      [] OTHER -> NoMsg

\* signedTxData as JSON.stringify writes it
signedTxData(txRaw) ==
    [path |-> st_OUTPUT_FILE, accountNumber |-> accountInfo.accountNumber,
     sequence |-> accountInfo.sequence,
     txType |-> st_TX_TYPE, messages |-> st_messages,
     signedTxBytes |-> JsonOfBytes(ArrayFrom(txRaw))]

\* (variant) a switch whose default case goes on to sign
st_SwitchWithoutDefault ==
    CASE st_typeLower = "mint-nft" /\ env["CONTRACT_ADDRESS"] = "" ->
             [next |-> "done", lines |-> <<"Error: CONTRACT_ADDRESS required for mint-nft">>]
      [] st_typeLower = "transfer-nft" /\ env["CONTRACT_ADDRESS"] = "" ->
             [next |-> "done", lines |-> <<"Error: CONTRACT_ADDRESS required for transfer-nft">>]
      [] st_typeLower = "transfer-nft" /\ env["RECIPIENT"] = "" ->
             [next |-> "done", lines |-> <<"Error: RECIPIENT required for transfer-nft">>]
      [] OTHER -> [next |-> "st_fee", lines |-> <<>>]

\* switch (TX_TYPE.toLowerCase()): where the run goes on and what it prints
st_Switch ==
    CASE st_typeLower = "send-tokens" -> [next |-> "st_fee", lines |-> <<>>]
      [] st_typeLower = "mint-nft" ->
             IF env["CONTRACT_ADDRESS"] = ""
             THEN [next |-> "done", lines |-> <<"Error: CONTRACT_ADDRESS required for mint-nft">>]
             ELSE [next |-> "st_fee", lines |-> <<>>]
      [] st_typeLower = "transfer-nft" ->
             IF env["CONTRACT_ADDRESS"] = ""
             THEN [next |-> "done", lines |-> <<"Error: CONTRACT_ADDRESS required for transfer-nft">>]
             ELSE IF env["RECIPIENT"] = ""
             THEN [next |-> "done", lines |-> <<"Error: RECIPIENT required for transfer-nft">>]
             ELSE [next |-> "st_fee", lines |-> <<>>]
      [] OTHER -> [next |-> "done", lines |-> <<"Unknown transaction type">>]

st_LoadWallet ==
    /\ Run("signTransaction", "start")
    /\ LoadWallet("st_connect", TRUE)
    /\ ScriptStep

st_Connect ==
    /\ Run("signTransaction", "st_connect")
    /\ Connect("connectSigning", "st_account", <<>>)
    /\ ScriptStep

\* const accountInfo = await client.getAccount(account.address);
\* if (!accountInfo) throw new Error("Account not found on chain. ...");
\* then the switch runs
st_GetAccount ==
    /\ Run("signTransaction", "st_account")
    /\ calls' = Append(calls, "getAccount")
    /\ \/ /\ accountInfo' = [accountNumber |-> 1, sequence |-> chain.sequence]
          /\ Goto(st_Switch.next, st_Switch.lines)
       \/ Catch(Err("Account not found on chain")) /\ UNCHANGED accountInfo
       \/ \E e \in RemoteErrors : Catch(e) /\ UNCHANGED accountInfo
    /\ UNCHANGED <<wallet, client>>
    /\ UNCHANGED <<inputs, pollVars, amtVars, feeVars, sent, file, signerData, chain,
                   reports, signedTx, inflight>>

\* const fee = await client.calculateFee(account.address, messages, memo)
st_CalculateFee ==
    /\ Run("signTransaction", "st_fee")
    /\ RemoteCall("calculateFee", "st_sign", <<>>)
    /\ ScriptStep

\* what a writeFileSync that throws can leave at the path: nothing new, or
\* a file cut short
FailedWrite == {file, [NoFile EXCEPT !.path = st_OUTPUT_FILE]}

\* (variant) a run that writes the export file before it signs
st_SignWritingFirst ==
    /\ Run("signTransaction", "st_sign")
    /\ \/ /\ Finish(calls \o <<"writeFile", "sign">>, <<"Transaction signed successfully!">>)
          /\ \E txRaw \in SignResults : signedTx' = txRaw /\ file' = signedTxData(txRaw)
       \/ \E e \in RemoteErrors :
             /\ calls' = calls \o <<"writeFile", "sign">>
             /\ Catch(e)
             /\ file' = signedTxData(NoSigned)
             /\ UNCHANGED <<wallet, client, signedTx>>
    /\ sent' = st_messages
    /\ UNCHANGED <<inputs, pollVars, amtVars, feeVars, accountInfo, signerData, chain, reports, inflight>>

\* client.sign(account.address, messages, fee, memo) is given no signer
\* data: the client signs with the account number and sequence the chain
\* reports when sign is called
SignerDataAtSign == [accountNumber |-> 1, sequence |-> chain.sequence]

\* (variant) a run that submits what it signed
st_SignAndBroadcast ==
    /\ Run("signTransaction", "st_sign")
    /\ \/ /\ Finish(calls \o <<"sign", "broadcastTx", "writeFile">>,
                    <<"Transaction signed successfully!">>)
          /\ \E txRaw \in SignResults : signedTx' = txRaw /\ file' = signedTxData(txRaw)
          /\ signerData' = SignerDataAtSign
          /\ chain' = Accepted(chain, st_messages.recipient)
       \/ \E e \in RemoteErrors :
             /\ calls' = Append(calls, "sign")
             /\ Catch(e)
             /\ UNCHANGED <<wallet, client, file, signedTx, signerData, chain>>
    /\ sent' = st_messages
    /\ UNCHANGED <<inputs, pollVars, amtVars, feeVars, accountInfo, reports, inflight>>

\* const txRaw = await client.sign(...); fs.writeFileSync(outputPath, ...);
\* ... client.disconnect()
st_Sign ==
    /\ Run("signTransaction", "st_sign")
    /\ \/ /\ Finish(calls \o <<"sign", "writeFile">>, <<"Transaction signed successfully!">>)
          /\ \E txRaw \in SignResults : signedTx' = txRaw /\ file' = signedTxData(txRaw)
          /\ signerData' = SignerDataAtSign
       \/ \* writeFileSync throws
          /\ calls' = calls \o <<"sign", "writeFile">>
          /\ Catch(Err("file write failed"))
          /\ file' \in FailedWrite
          /\ \E txRaw \in SignResults : signedTx' = txRaw
          /\ signerData' = SignerDataAtSign
          /\ UNCHANGED <<wallet, client>>
       \/ \E e \in RemoteErrors :
             /\ calls' = Append(calls, "sign")
             /\ Catch(e)
             /\ UNCHANGED <<wallet, client, file, signedTx, signerData>>
    /\ sent' = st_messages
    /\ UNCHANGED <<inputs, pollVars, amtVars, feeVars, accountInfo, chain, reports, inflight>>

\* broadcastSignedTransaction(signedTxFile)
\* const signedTxData = JSON.parse(fs.readFileSync(signedTxFile, "utf-8"))
bst_ReadFile ==
    /\ Run("broadcastSignedTransaction", "start")
    /\ calls' = Append(calls, "readFile")
    /\ IF file = NoFile
       THEN Catch(Err("file read failed"))
       ELSE Goto("bst_wallet", <<>>)
    /\ UNCHANGED <<wallet, client>>
    /\ ScriptStep

bst_LoadWallet ==
    /\ Run("broadcastSignedTransaction", "bst_wallet")
    /\ LoadWallet("bst_connect", FALSE)
    /\ ScriptStep

bst_Connect ==
    /\ Run("broadcastSignedTransaction", "bst_connect")
    /\ Connect("connectSigning", "bst_broadcast", <<>>)
    /\ ScriptStep

bst_BroadcastTx ==
    /\ Run("broadcastSignedTransaction", "bst_broadcast")
    /\ LastCall("broadcastTx", <<"Transaction broadcast successfully!">>)
    /\ Submits([Msg("broadcast") EXCEPT !.bytes = Uint8ArrayFrom(file.signedTxBytes)],
               file.messages.recipient)

---------------------------------------------------------------------------
(* One run of one command script.                                          *)

Scripts ==
    {"mintToken", "transferNFT", "transferGas", "monitorTransaction",
     "verifyOwnership", "checkGasFee", "createWallet", "deployContract",
     "signMessage", "signMessage_v2", "signTransaction",
     "broadcastSignedTransaction"}

EnvNames ==
    {"MNEMONIC", "CONTRACT_ADDRESS", "TOKEN_ID", "OWNER_ADDRESS",
     "TOKEN_ATTRIBUTES", "METADATA_STORAGE", "RECIPIENT", "AMOUNT",
     "TX_HASH", "WAIT", "TX_TYPE", "MESSAGE", "OUTPUT_FILE"}

\* the environment variables a script's control flow depends on
Reads(s) ==
    CASE s = "mintToken" ->
             {"MNEMONIC", "CONTRACT_ADDRESS", "TOKEN_ID", "OWNER_ADDRESS",
              "TOKEN_ATTRIBUTES", "METADATA_STORAGE"}
      [] s = "transferNFT" -> {"MNEMONIC", "CONTRACT_ADDRESS", "TOKEN_ID", "RECIPIENT"}
      [] s = "transferGas" -> {"MNEMONIC", "RECIPIENT", "AMOUNT"}
      [] s = "monitorTransaction" -> {"TX_HASH", "WAIT"}
      [] s = "verifyOwnership" -> {"CONTRACT_ADDRESS", "TOKEN_ID"}
      [] s = "checkGasFee" -> {"MNEMONIC", "CONTRACT_ADDRESS", "TX_TYPE"}
      [] s = "createWallet" -> {}
      [] s = "deployContract" -> {"MNEMONIC"}
      [] s \in {"signMessage", "signMessage_v2"} -> {"MNEMONIC", "MESSAGE"}
      [] s = "signTransaction" ->
             {"MNEMONIC", "CONTRACT_ADDRESS", "RECIPIENT", "TX_TYPE", "OUTPUT_FILE"}
      [] s = "broadcastSignedTransaction" -> {"MNEMONIC"}

\* the values a set variable can hold
Values(n) ==
    CASE n = "MNEMONIC" -> {"test test test junk"}
      [] n = "CONTRACT_ADDRESS" -> {"xion1contract"}
      [] n = "TOKEN_ID" -> {"7"}
      [] n = "OWNER_ADDRESS" -> {"xion1owner"}
      [] n = "TOKEN_ATTRIBUTES" ->
             {"[{\"trait_type\":\"Color\",\"value\":\"Blue\"}]", "{not json"}
      [] n = "METADATA_STORAGE" -> {"offchain"}
      [] n = "RECIPIENT" -> {"xion1recipient"}
      [] n = "AMOUNT" -> {"1.5", "0.000249", "-1.5", "abc"}
      [] n = "TX_HASH" -> {"HASH_A"}
      [] n = "WAIT" -> {"true", "false"}
      [] n = "TX_TYPE" ->
             {"mint", "mint-nft", "transfer-nft", "send-tokens", "instantiate", "stake",
              "SEND-TOKENS"}
      [] n = "MESSAGE" -> {"hello"}
      [] n = "OUTPUT_FILE" -> {"env-out.json"}

\* the positional arguments a script is started with ("" when not given)
Arg(s, i) ==
    CASE s = "monitorTransaction" -> <<"HASH_B", "--wait">>[i]
      [] s = "transferGas" -> <<"xion1argrecipient", "0.5">>[i]
      [] s \in {"checkGasFee", "signTransaction"} -> <<"transfer-nft", "out.json">>[i]
      [] OTHER -> <<"8", "xion1argaddress">>[i]

ArgPositions == {1, 2}

RECURSIVE Envs(_, _)
\* the environments that set variables of `names` (to one of their values)
\* on top of `e`
Envs(names, e) ==
    IF names = {} THEN {e}
    ELSE LET n == CHOOSE x \in names : TRUE
         IN  UNION {Envs(names \ {n}, [e EXCEPT ![n] = v]) : v \in Values(n) \cup {""}}

InitRun ==
    /\ pc = "start"
    /\ wallet = "none"
    /\ client = "none"
    /\ calls = <<>>
    /\ console = <<>>
    /\ exitCode = 0
    /\ error = NoError

\* the file an earlier signTransaction run left behind when client.sign
\* gave it txRaw at sequence n
SignedTxFile(n, txRaw) ==
    [path |-> "signed-tx.json", accountNumber |-> 1, sequence |-> n,
     txType |-> "send-tokens",
     messages |-> [Msg("send") EXCEPT !.recipient = "xion1recipient",
                                      !.amount = <<"1", "5", "0", "0", "0", "0", "0">>],
     signedTxBytes |-> JsonOfBytes(ArrayFrom(txRaw))]


\* the chain a run starts against when the token is not what it is about
InitialChain == [owner |-> "xion1alice", token_uri |-> "ipfs://a", sequence |-> 0]

\* nothing sent or fetched yet; a signed-transaction file can be there
\* when a run of the two scripts that use one starts
InitOut ==
    /\ sent = NoMsg
    /\ accountInfo = NoAccount
    /\ CASE script = "signTransaction" ->
               /\ file \in {NoFile, SignedTxFile(0, [kind |-> "Uint8Array", bytes |-> <<128>>])}
               /\ signedTx = NoSigned
               /\ signerData = NoAccount
               /\ chain \in {[InitialChain EXCEPT !.sequence = n] : n \in SequenceNumbers}
         [] script = "broadcastSignedTransaction" ->
               /\ \/ file = NoFile /\ signedTx = NoSigned /\ signerData = NoAccount
                  \/ \E n \in SequenceNumbers, txRaw \in SignResults :
                        /\ file = SignedTxFile(n, txRaw)
                        /\ signedTx = txRaw
                        /\ signerData = [accountNumber |-> 1, sequence |-> n]
               /\ chain = InitialChain
         [] script = "verifyOwnership" ->
               /\ file = NoFile /\ signedTx = NoSigned /\ signerData = NoAccount
               /\ chain \in ChainStates
         [] OTHER ->
               /\ file = NoFile /\ signedTx = NoSigned /\ signerData = NoAccount
               /\ chain = InitialChain
    /\ reports = <<NoReport>>
    /\ inflight = <<>>

InitAux ==
    /\ gas = Zero(FALSE)
    /\ fee = NoFee
    /\ InitOut

InitIdle ==
    /\ tx = NoTx
    /\ txHash = ""
    /\ maxAttempts = 0
    /\ pollI = 0
    /\ sleeps = 0
    /\ pollStatus = "idle"
    /\ amtIn = JsNum(Zero(FALSE))
    /\ amtDisplay = <<>>
    /\ amtBase = <<>>
    /\ InitAux

Init ==
    /\ script \in Scripts
    /\ env \in Envs(Reads(script), [n \in EnvNames |-> ""])
    /\ \E given \in SUBSET ArgPositions :
          argv = [i \in ArgPositions |-> IF i \in given THEN Arg(script, i) ELSE ""]
    /\ InitRun
    /\ InitIdle

Next ==
    \/ mint_Validate \/ mint_LoadWallet \/ mint_Connect \/ mint_Execute
    \/ tnft_Validate \/ tnft_LoadWallet \/ tnft_Connect \/ tnft_Execute
    \/ tg_Validate \/ tg_LoadWallet \/ tg_Connect \/ tg_GetBalance
    \/ tg_SendTokens \/ tg_NewBalance
    \/ mon_Validate \/ mon_Connect \/ mon_GetTx
    \/ wft_Lookup \/ wft_Sleep \/ wft_Exhausted
    \/ vo_Validate \/ vo_Connect \/ vo_OwnerOf \/ vo_NftInfo \/ vo_Tokens
    \/ cgf_LoadWallet \/ cgf_Connect \/ cgf_Simulate \/ cgf_GetBalance
    \/ cw_Generate
    \/ dc_LoadWallet \/ dc_Connect \/ dc_GetBalance \/ dc_Instantiate
    \/ sm_Validate \/ sm_LoadWallet \/ sm_Connect \/ sm_Sign
    \/ sm2_Sign \/ sm2_SignDirect
    \/ st_LoadWallet \/ st_Connect \/ st_GetAccount \/ st_CalculateFee \/ st_Sign
    \/ bst_ReadFile \/ bst_LoadWallet \/ bst_Connect \/ bst_BroadcastTx

Spec == Init /\ [][Next]_vars

---------------------------------------------------------------------------
(* waitForTransaction called on a connected client, with any maxAttempts.  *)

InitPoller ==
    /\ script = "waitForTransaction"
    /\ env = [n \in EnvNames |-> ""]
    /\ argv = [i \in ArgPositions |-> ""]
    /\ pc = "wft_loop"
    /\ wallet = "none"
    /\ client = "open"
    /\ calls = <<>>
    /\ console = <<>>
    /\ exitCode = 0
    /\ error = NoError
    /\ tx = NoTx
    /\ txHash \in TxHashes
    /\ maxAttempts \in 0..MaxAttemptsBound
    /\ pollI = 0
    /\ sleeps = 0
    /\ pollStatus = "pending"
    /\ amtIn = JsNum(Zero(FALSE))
    /\ amtDisplay = <<>>
    /\ amtBase = <<>>
    /\ InitAux

NextPoller == wft_Lookup \/ wft_Sleep \/ wft_Exhausted

SpecPoller == InitPoller /\ [][NextPoller]_vars

---------------------------------------------------------------------------
(* The amount conversions applied one after the other.                     *)

\* largest base-unit amount below the listed whole-token amounts
MaxBaseAmount == 300

BaseAmounts == 0..MaxBaseAmount \cup {1000000, 2000000}

\* a base-unit amount as a Number and as its decimal string
AmountInputs ==
    {JsNum(FromInt(b)) : b \in BaseAmounts}
    \cup {JsStr(DecDigits(LimbsOf(b))) : b \in BaseAmounts}

\* the decimal string of the base-unit amount handed in
DecimalOf(a) == IF a.str THEN a.chars ELSE IntToString(MathFloor(a.num))

InitAmount ==
    /\ script = "amount"
    /\ env = [n \in EnvNames |-> ""]
    /\ argv = [i \in ArgPositions |-> ""]
    /\ InitRun
    /\ tx = NoTx
    /\ txHash = ""
    /\ maxAttempts = 0
    /\ pollI = 0
    /\ sleeps = 0
    /\ pollStatus = "idle"
    /\ amtIn \in AmountInputs
    /\ amtDisplay = <<>>
    /\ amtBase = <<>>
    /\ InitAux

\* amtDisplay = formatXionAmount(amtIn)
Format ==
    /\ Run("amount", "start")
    /\ amtDisplay' = formatXionAmount(amtIn)
    /\ pc' = "formatted"
    /\ UNCHANGED <<inputs, chainVars, console, exitCode, error, pollVars, amtIn, amtBase, auxVars>>

\* amtBase = parseXionAmount(amtDisplay)
Parse ==
    /\ Run("amount", "formatted")
    /\ amtBase' = parseXionAmount(JsStr(amtDisplay))
    /\ pc' = "done"
    /\ UNCHANGED <<inputs, chainVars, console, exitCode, error, pollVars, amtIn, amtDisplay, auxVars>>

NextAmount == Format \/ Parse

SpecAmount == InitAmount /\ [][NextAmount]_vars

---------------------------------------------------------------------------
(* Properties.                                                             *)

Has(s, x) == \E i \in DOMAIN s : s[i] = x

\* calls that reach the chain: connections, queries, simulation, signing
\* with the connected client, execution, broadcast
ChainOps ==
    {"connectSigning", "connectQuery", "getAccount", "getBalance", "getTx",
     "queryContractSmart", "simulate", "calculateFee", "sign", "execute",
     "instantiate", "sendTokens", "broadcastTx"}

NoChainOp == \A i \in DOMAIN calls : calls[i] \notin ChainOps

\* C1: when the poller returns, it returns the transaction the last lookup
\* yielded (found, with the hash asked for), that lookup was lookup number
\* pollI + 1 <= maxAttempts after pollI empty lookups and as many delays, no
\* error was raised, and no lookup is issued once a result has been returned.
C1_PollerSuccess ==
    /\ [](pollStatus = "found" =>
            /\ tx.found /\ tx.hash = txHash
            /\ Lookups = pollI + 1
            /\ Lookups <= maxAttempts
            /\ sleeps = pollI
            /\ error = NoError
            /\ pc = "done")
    /\ [][pollStatus = "found" => calls' = calls]_vars

C1_Witness ==
    /\ script = "waitForTransaction"
    /\ pollStatus = "found"
    /\ maxAttempts = 4
    /\ Lookups = 3
    /\ tx = IndexedTx(txHash, 0)

\* C2: when every lookup came back empty the poller has issued exactly
\* maxAttempts lookups (none when maxAttempts is 0) and fails with the
\* not-indexed error that carries the hash and the attempt count; a run of
\* the poller that ends without an error has a found transaction to return.
C2_PollerExhaustion ==
    /\ pollStatus = "exhausted" =>
          /\ Lookups = maxAttempts
          /\ sleeps = maxAttempts
          /\ error = NotIndexedError(txHash, maxAttempts)
          /\ error.hash = txHash /\ error.attempts = maxAttempts
          /\ tx = NoTx
          /\ pc = "done"
    /\ (pc = "done" /\ error = NoError) => (pollStatus = "found" /\ tx.found)
    /\ (maxAttempts = 0 /\ pc = "done") => (pollStatus = "exhausted" /\ calls = <<>>)

C2_Witness ==
    /\ script = "waitForTransaction"
    /\ pollStatus = "exhausted"
    /\ maxAttempts = 3
    /\ Lookups = 3
    /\ error.hash = "HASH_B"

\* C3: in monitor-transaction, a transaction the lookup or the poller yields
\* is handed on whatever its result code: the run ends without an error and
\* with exit status 0, the poller has not looked again, and the status line
\* printed is SUCCESS exactly when the code is 0, FAILED otherwise.
C3_FailedTxIsFound ==
    (script = "monitorTransaction" /\ tx.found) =>
        /\ pc = "done"
        /\ error = NoError
        /\ exitCode = 0
        /\ pollStatus \in {"idle", "found"}
        /\ pollStatus = "found" => (Lookups = pollI + 1 /\ sleeps = pollI)
        /\ Has(console, "Status: SUCCESS") <=> tx.code = 0
        /\ Has(console, "Status: FAILED") <=> tx.code # 0

C3_Witness ==
    /\ script = "monitorTransaction"
    /\ pollStatus = "found"
    /\ tx.found /\ tx.code # 0
    /\ Lookups = 2
    /\ Has(console, "Status: FAILED")

\* C4: when a lookup throws, the poller ends there with that error: the
\* failing lookup was lookup number pollI + 1, only the pollI empty lookups
\* before it were followed by a delay, nothing is returned, and no further
\* lookup is issued.
C4_PollerErrorPropagates ==
    /\ [](pollStatus = "failed" =>
            /\ error \in RemoteErrors
            /\ Lookups = pollI + 1
            /\ sleeps = pollI
            /\ tx = NoTx
            /\ pc = "done")
    /\ [][pollStatus = "failed" => calls' = calls]_vars

C4_Witness ==
    /\ script = "waitForTransaction"
    /\ pollStatus = "failed"
    /\ maxAttempts = 4
    /\ Lookups = 2
    /\ error = Err("remote: failure")

\* C5: a mint run without CONTRACT_ADDRESS derives no wallet, opens no
\* connection and issues no call at all; it ends having printed the
\* CONTRACT_ADDRESS diagnostic, with exit status 0 and no error.
C5_MintWithoutContract ==
    (script = "mintToken" /\ env["CONTRACT_ADDRESS"] = "") =>
        /\ calls = <<>>
        /\ wallet = "none"
        /\ client = "none"
        /\ exitCode = 0
        /\ error = NoError
        /\ pc \in {"start", "done"}
        /\ pc = "done" => console = <<"Error: CONTRACT_ADDRESS not set!">>

C5_Witness ==
    /\ script = "mintToken"
    /\ env["CONTRACT_ADDRESS"] = ""
    /\ env["MNEMONIC"] # ""
    /\ pc = "done"
    /\ console = <<"Error: CONTRACT_ADDRESS not set!">>

\* a parameter the running script requires is absent
RequiredMissing ==
    CASE script = "mintToken" -> env["CONTRACT_ADDRESS"] = ""
      [] script = "transferNFT" ->
             env["CONTRACT_ADDRESS"] = "" \/ tnft_TOKEN_ID = "" \/ tnft_RECIPIENT = ""
      [] script = "transferGas" -> tg_RECIPIENT = "" \/ tg_AMOUNT = ""
      [] script = "monitorTransaction" -> mon_TX_HASH = ""
      [] script = "verifyOwnership" -> env["CONTRACT_ADDRESS"] = "" \/ vo_TOKEN_ID = ""
      [] script \in {"signMessage", "signMessage_v2"} -> sm_MESSAGE = ""
      [] script = "checkGasFee" ->
             cgf_typeLower \in {"mint", "transfer-nft"} /\ env["CONTRACT_ADDRESS"] = ""
      [] script = "signTransaction" ->
             \/ st_typeLower \in {"mint-nft", "transfer-nft"} /\ env["CONTRACT_ADDRESS"] = ""
             \/ st_typeLower = "transfer-nft" /\ env["RECIPIENT"] = ""
      [] OTHER -> FALSE

\* C6: in every script, a run in which a required parameter is absent
\* performs no chain operation (no connection, account lookup, balance
\* query, simulation, signing or execution call).
C6_CheckPrecedesChainOps == RequiredMissing => NoChainOp

\* C6, where the code departs: check-gas-fee, started with a mnemonic and
\* without CONTRACT_ADDRESS, has opened a signing connection by the time it
\* prints that CONTRACT_ADDRESS is required.
C6_Witness ==
    /\ script = "checkGasFee"
    /\ env["CONTRACT_ADDRESS"] = ""
    /\ pc = "done"
    /\ Has(console, "Error: CONTRACT_ADDRESS required for mint simulation")
    /\ Has(calls, "connectSigning")
    /\ client = "open"

\* C7: a run that opened a connection has disconnected it when it ends.
C7_ConnectionReleased == (pc = "done" /\ client # "none") => client = "closed"

\* C7, where the code departs: transfer-gas returns on an insufficient
\* balance with the connection still open.
C7_Witness ==
    /\ script = "transferGas"
    /\ pc = "done"
    /\ Has(console, "Error: Insufficient balance!")
    /\ client = "open"
    /\ exitCode = 0

\* C8 (as amended): an error that reaches the catch clause of a script ends
\* the run with the message printed and exit status 1, except in
\* monitor-transaction and verify-ownership when the message contains
\* "not found": then a not-found notice is printed and the exit status
\* stays 0.  Exit status 1 arises in no other way.
C8_TopLevelCatch ==
    /\ (pc = "done" /\ error # NoError) =>
          IF script \in {"monitorTransaction", "verifyOwnership"}
             /\ MessageIncludesNotFound(error)
          THEN /\ exitCode = 0
               /\ ~Has(console, "Error occurred:")
               /\ \/ Has(console, "Transaction not found! Please verify the transaction hash")
                  \/ Has(console, "Error: Token not found!")
          ELSE /\ exitCode = 1
               /\ console[Len(console)] = "Error occurred:"
    /\ exitCode # 0 => (pc = "done" /\ error # NoError)
    /\ error # NoError => pc = "done"

\* C8, the case of the claim: monitor-transaction --wait after the poller
\* ran out of attempts.
C8_Witness ==
    /\ script = "monitorTransaction"
    /\ pollStatus = "exhausted"
    /\ error = NotIndexedError(txHash, DefaultMaxAttempts)
    /\ pc = "done"
    /\ exitCode = 0

\* C8 as stated: every error that reaches the catch clause of a script ends
\* the run with exit status 1.
C8_AsStated == (pc = "done" /\ error # NoError) => exitCode = 1

WalletScripts ==
    {"mintToken", "transferNFT", "transferGas", "checkGasFee", "deployContract",
     "signMessage", "signMessage_v2", "signTransaction",
     "broadcastSignedTransaction"}

MnemonicError == Err("MNEMONIC not found in environment variables")

\* C9: without MNEMONIC, a script that needs a wallet derives none, opens no
\* connection and performs no chain operation; once its parameter checks
\* have passed the run ends in loadWallet's configuration error (exit
\* status 1), raised before the wallet library is called.
C9_NoMnemonic ==
    (script \in WalletScripts /\ env["MNEMONIC"] = "") =>
        /\ wallet = "none"
        /\ client = "none"
        /\ NoChainOp
        /\ ~Has(calls, "fromMnemonic")
        /\ error \in {NoError, MnemonicError, Err("file read failed")}
        /\ (pc = "done" /\ error = NoError) => (RequiredMissing /\ calls = <<>>)
        /\ error = MnemonicError => (pc = "done" /\ exitCode = 1)

C9_Witness ==
    /\ script = "signTransaction"
    /\ env["MNEMONIC"] = ""
    /\ pc = "done"
    /\ error = MnemonicError
    /\ exitCode = 1
    /\ calls = <<>>

\* C10: once a base-unit amount has been formatted and the result parsed,
\* the string obtained is the decimal string of the amount; 1000000 formats
\* to "1.000000", which parses to "1000000".
C10_RoundTrip ==
    /\ pc = "done" => amtBase = DecimalOf(amtIn)
    /\ (pc # "start" /\ DecimalOf(amtIn) = Chars("1000000")) =>
          amtDisplay = <<"1", ".", "0", "0", "0", "0", "0", "0">>

\* C10, where the code departs: 249 formats to "0.000249", which parses to
\* "248".
C10_Witness ==
    /\ amtIn = JsNum(FromInt(249))
    /\ pc = "done"
    /\ amtDisplay = <<"0", ".", "0", "0", "0", "2", "4", "9">>
    /\ amtBase = <<"2", "4", "8">>

---------------------------------------------------------------------------
(* parseXionAmount applied to display amounts.                             *)

\* largest count of millionths in the display amounts (besides 999999)
MaxMicro == 260

\* sign, one integer digit, six fractional digits, and possibly a seventh
DisplayAmounts ==
    {sign \o <<i>> \o <<".">> \o PadLeft(DecDigits(LimbsOf(k)), 6) \o tail :
        sign \in {<<>>, <<"-">>}, i \in {"0", "1"},
        k \in 0..MaxMicro \cup {999999}, tail \in {<<>>, <<"5">>}}

InitParse ==
    /\ script = "amount"
    /\ env = [n \in EnvNames |-> ""]
    /\ argv = [i \in ArgPositions |-> ""]
    /\ pc = "formatted"
    /\ wallet = "none"
    /\ client = "none"
    /\ calls = <<>>
    /\ console = <<>>
    /\ exitCode = 0
    /\ error = NoError
    /\ tx = NoTx
    /\ txHash = ""
    /\ maxAttempts = 0
    /\ pollI = 0
    /\ sleeps = 0
    /\ pollStatus = "idle"
    /\ amtIn = JsNum(Zero(FALSE))
    /\ amtDisplay \in DisplayAmounts
    /\ amtBase = <<>>
    /\ InitAux

NextParse == Parse

SpecParse == InitParse /\ [][NextParse]_vars

\* the digits of s from position i on, cut or zero-filled to n digits
RECURSIVE FractionDigits(_, _, _)
FractionDigits(s, i, n) ==
    IF n = 0 THEN <<>>
    ELSE IF i <= Len(s) /\ IsDigit(s[i])
         THEN <<s[i]>> \o FractionDigits(s, i + 1, n - 1)
         ELSE <<"0">> \o FractionDigits(s, Len(s) + 1, n - 1)

\* the decimal string of a * 10^decimals with its fraction discarded toward
\* zero, computed on the digits of the display amount a
TruncatedBaseUnits(s) ==
    LET neg   == s[1] = "-"
        i0    == IF neg THEN 2 ELSE 1
        nInt  == DigitRun(s, i0)
        all   == SubSeq(s, i0, i0 + nInt - 1)
                 \o FractionDigits(s, i0 + nInt + 1, decimals)
        value == DigitsToNat(all, 1, Len(all), <<>>)
    IN  (IF neg /\ value # <<>> THEN <<"-">> ELSE <<>>) \o DecDigits(value)

\* C11: the string parseXionAmount yields for a display amount is the
\* decimal string of the amount times 10^decimals with the fractional part
\* discarded toward zero.
C11_TruncatesTowardZero == pc = "done" => amtBase = TruncatedBaseUnits(amtDisplay)

\* C11, where the code departs: "-0.0000005" gives "-1" (Math.floor goes
\* away from zero on a negative amount), not "0".
C11_Witness ==
    /\ pc = "done"
    /\ amtDisplay = <<"-", "0", ".", "0", "0", "0", "0", "0", "0", "5">>
    /\ amtBase = <<"-", "1">>
    /\ TruncatedBaseUnits(amtDisplay) = <<"0">>

\* C11, the instance named: "1.9999995" gives "1999999".
C11_NamedInstance ==
    (pc = "done" /\ amtDisplay = <<"1", ".", "9", "9", "9", "9", "9", "9", "5">>)
        => amtBase = <<"1", "9", "9", "9", "9", "9", "9">>

---------------------------------------------------------------------------
(* calculateFee applied to gas amounts.                                    *)

\* gas amounts 0..MaxGas and the multiples of 40 up to 40 * MaxGas
MaxGas == 200

GasAmounts == 0..MaxGas \cup {40 * k : k \in 0..MaxGas} \cup {200000}

InitFee ==
    /\ script = "fee"
    /\ env = [n \in EnvNames |-> ""]
    /\ argv = [i \in ArgPositions |-> ""]
    /\ InitRun
    /\ tx = NoTx
    /\ txHash = ""
    /\ maxAttempts = 0
    /\ pollI = 0
    /\ sleeps = 0
    /\ pollStatus = "idle"
    /\ amtIn = JsNum(Zero(FALSE))
    /\ amtDisplay = <<>>
    /\ amtBase = <<>>
    /\ \E g \in GasAmounts : gas = FromInt(g)
    /\ fee = NoFee
    /\ InitOut

\* fee = calculateFee(gas)
CalculateFee ==
    /\ Run("fee", "start")
    /\ fee' = calculateFee(gas)
    /\ pc' = "done"
    /\ UNCHANGED <<inputs, chainVars, console, exitCode, error, pollVars, amtVars, gas,
                   sent, file, accountInfo, signerData, chain, reports, signedTx,
                   inflight>>

NextFee == CalculateFee

SpecFee == InitFee /\ [][NextFee]_vars

\* the gas amounts whose Number is `gas`
GasOf == {g \in GasAmounts : FromInt(g) = gas}

\* C12: the fee calculateFee returns for a gas amount g is one coin of the
\* configured denom with amount ceil(g * 0.025) = ceil(25 g / 1000), and
\* its gas limit is g; g = 0 gives amount 0 and g = 200000 gives 5000.
C12_FeeIsCeiling ==
    pc = "done" =>
        \A g \in GasOf :
            /\ Len(fee.amount) = 1
            /\ fee.amount[1].denom = "uxion"
            /\ fee.amount[1].amount = DecDigits(LimbsOf((25 * g + 999) \div 1000))
            /\ fee.gas = DecDigits(LimbsOf(g))
            /\ g = 0 => fee.amount[1].amount = <<"0">>
            /\ g = 200000 => fee.amount[1].amount = <<"5", "0", "0", "0">>

\* a gas amount that is not a multiple of 40: 41 gives ceil(1.025) = 2
C12_Witness ==
    /\ script = "fee"
    /\ pc = "done"
    /\ gas = FromInt(41)
    /\ fee = [amount |-> <<[denom |-> "uxion", amount |-> <<"2">>]>>,
              gas |-> <<"4", "1">>]

---------------------------------------------------------------------------
(* Parameter precedence.                                                   *)

\* the transaction type a message kind is built for
TypeOfKind(kind) ==
    CASE kind = "mint" -> "mint"
      [] kind = "transfer_nft" -> "transfer-nft"
      [] kind = "send" -> "send-tokens"
      [] kind = "instantiate" -> "instantiate"
      [] OTHER -> "unknown"

\* the value parameters: when the environment variable is set, the message
\* sent, the hash looked up and the file written carry its value
C13_ValuesFromEnvironment ==
    /\ (script = "mintToken" /\ sent.kind = "mint" /\ env["TOKEN_ID"] # "")
          => sent.token_id = env["TOKEN_ID"]
    /\ (script = "transferNFT" /\ sent.kind = "transfer_nft")
          => /\ env["TOKEN_ID"] # "" => sent.token_id = env["TOKEN_ID"]
             /\ env["RECIPIENT"] # "" => sent.recipient = env["RECIPIENT"]
    /\ (script = "verifyOwnership" /\ sent.kind = "owner_of" /\ env["TOKEN_ID"] # "")
          => sent.token_id = env["TOKEN_ID"]
    /\ (script = "transferGas" /\ sent.kind = "send")
          => /\ env["RECIPIENT"] # "" => sent.recipient = env["RECIPIENT"]
             /\ env["AMOUNT"] # ""
                   => sent.amount = parseXionAmount(JsStr(Chars(env["AMOUNT"])))
    /\ (script = "monitorTransaction" /\ txHash # "" /\ env["TX_HASH"] # "")
          => txHash = env["TX_HASH"]
    /\ (script = "checkGasFee" /\ sent # NoMsg /\ env["TX_TYPE"] # "")
          => TypeOfKind(sent.kind) = env["TX_TYPE"]
    /\ (script = "signTransaction" /\ Has(calls, "writeFile") /\ error = NoError)
          => /\ env["TX_TYPE"] # "" => file.txType = env["TX_TYPE"]
             /\ env["OUTPUT_FILE"] # "" => file.path = env["OUTPUT_FILE"]
    /\ (script \in {"signMessage", "signMessage_v2"} /\ sent.kind = "sign_message"
          /\ env["MESSAGE"] # "")
          => sent.text = env["MESSAGE"]

\* the wait flag: when WAIT is set, its value decides whether the run polls
C13_WaitFromEnvironment ==
    (script = "monitorTransaction" /\ env["WAIT"] # "" /\ pollStatus # "idle")
        => env["WAIT"] = "true"

\* C13: for every parameter that can be given both as an environment
\* variable and as a positional argument (TOKEN_ID, RECIPIENT, AMOUNT,
\* TX_HASH, TX_TYPE, OUTPUT_FILE, MESSAGE, and WAIT versus --wait), the
\* environment value is the one used whenever the variable is set, whatever
\* the positional argument is.
C13_EnvironmentFirst ==
    /\ C13_ValuesFromEnvironment
    /\ C13_WaitFromEnvironment

\* WAIT=false together with --wait: the run polls
C13_Witness ==
    /\ script = "monitorTransaction"
    /\ env["WAIT"] = "false"
    /\ argv[2] = "--wait"
    /\ pollStatus = "found"
    /\ pc = "done"
    /\ Has(calls, "getTx")
---------------------------------------------------------------------------
(* Malformed optional input.                                               *)

AttributesWarning ==
    "Warning: Could not parse TOKEN_ATTRIBUTES JSON, skipping attributes"

\* mint in on-chain mode with a TOKEN_ATTRIBUTES value JSON.parse rejects
MalformedAttributes ==
    /\ script = "mintToken"
    /\ mint_METADATA_STORAGE = "onchain"
    /\ env["TOKEN_ATTRIBUTES"] # ""
    /\ ~JsonParses(env["TOKEN_ATTRIBUTES"])

\* the mint message of a run that sets no TOKEN_ATTRIBUTES
MintMsgWithoutAttributes ==
    [Msg("mint") EXCEPT
        !.sender = accountAddress,
        !.contract = env["CONTRACT_ADDRESS"],
        !.token_id = Or(env["TOKEN_ID"], Or(argv[1], "1")),
        !.owner = Or(Or(env["OWNER_ADDRESS"], argv[2]), accountAddress),
        !.extension = {"name", "description", "image"}]

\* C14: when mint runs in on-chain mode with a TOKEN_ATTRIBUTES value that
\* is not parsable JSON, the run is not aborted: once the connection is
\* open the warning has been logged and nothing else went wrong
\* (no error, exit status 0), the mint message handed to execute has no
\* attributes field and is otherwise the message of a run without
\* TOKEN_ATTRIBUTES, and execute is issued exactly once.
C14_MalformedAttributesSkipped ==
    MalformedAttributes =>
        /\ Count(calls, "execute") <= 1
        /\ pc = "mint_execute" =>
              /\ Count(console, AttributesWarning) = 1
              /\ error = NoError /\ exitCode = 0
              /\ calls = <<"fromMnemonic", "getAccounts", "connectSigning">>
        /\ (pc = "done" /\ client # "none") =>
              /\ Count(console, AttributesWarning) = 1
              /\ Count(calls, "execute") = 1
              /\ sent = MintMsgWithoutAttributes
              /\ "attributes" \notin sent.extension
        /\ sent # NoMsg => Has(calls, "execute")

C14_Witness ==
    /\ MalformedAttributes
    /\ pc = "done"
    /\ error = NoError
    /\ exitCode = 0
    /\ Has(console, AttributesWarning)
    /\ Has(console, "NFT minted successfully!")
    /\ calls = <<"fromMnemonic", "getAccounts", "connectSigning", "execute", "disconnect">>
    /\ sent = MintMsgWithoutAttributes
    /\ env["TOKEN_ID"] = "7"
---------------------------------------------------------------------------
(* verifyOwnership run several times against one chain state.              *)

\* number of consecutive runs
MaxRuns == 2

InitVerify ==
    /\ script = "verifyOwnership"
    /\ Init

\* the script is started again: a new process, the same chain
vo_Again ==
    /\ Run("verifyOwnership", "done")
    /\ Len(reports) < MaxRuns
    /\ reports' = Append(reports, NoReport)
    /\ pc' = "start"
    /\ client' = "none"
    /\ calls' = <<>>
    /\ console' = <<>>
    /\ exitCode' = 0
    /\ error' = NoError
    /\ sent' = NoMsg
    /\ UNCHANGED <<inputs, wallet, pollVars, amtVars, feeVars, file, accountInfo, signerData, chain,
                   signedTx, inflight>>

NextVerify ==
    \/ vo_Validate \/ vo_Connect \/ vo_OwnerOf \/ vo_NftInfo \/ vo_Tokens
    \/ vo_Again

SpecVerify == InitVerify /\ [][NextVerify]_vars

\* only queries over a query connection; what the runs printed about the
\* owner and the metadata is what the chain holds
C15_State ==
    /\ wallet = "none"
    /\ \A i \in DOMAIN calls :
          calls[i] \in {"connectQuery", "queryContractSmart", "disconnect"}
    /\ sent.kind \in {"none", "owner_of", "nft_info", "tokens"}
    /\ \A i \in DOMAIN reports :
          /\ reports[i].owner \in {"", chain.owner}
          /\ reports[i].token_uri \in {"", chain.token_uri}
    /\ \A i, j \in DOMAIN reports :
          /\ (reports[i].owner # "" /\ reports[j].owner # "")
                => reports[i].owner = reports[j].owner
          /\ (reports[i].token_uri # "" /\ reports[j].token_uri # "")
                => reports[i].token_uri = reports[j].token_uri

\* C15: verifyOwnership is read-only and idempotent: a run issues only
\* contract queries (owner_of, nft_info, tokens) over a query connection,
\* no wallet, signing, execute or broadcast call; consecutive runs against
\* an unchanged chain state print the same owner and the same metadata
\* (whenever both print them), and no step changes the chain state.
C15_ReadOnlyIdempotent == []C15_State /\ [][chain' = chain]_vars

\* two complete runs have printed the same owner and metadata
C15_Witness ==
    /\ script = "verifyOwnership"
    /\ pc = "done"
    /\ error = NoError
    /\ Len(reports) = 2
    /\ reports[1] = [owner |-> "xion1bob", token_uri |-> "ipfs://b"]
    /\ reports[2] = reports[1]
    /\ calls = <<"connectQuery", "queryContractSmart", "queryContractSmart",
                 "queryContractSmart", "disconnect">>
    /\ Has(console, "xion1bob")
---------------------------------------------------------------------------
(* The signed-transaction file.                                            *)

\* the run went through: no early return, no error
st_Succeeded ==
    /\ script = "signTransaction"
    /\ pc = "done"
    /\ error = NoError
    /\ Has(calls, "getAccount")
    /\ st_Switch.next # "done"

\* the file of a run that went through is the export of that run, written
\* by the one writeFile call, which follows calculateFee and sign and is
\* followed by disconnect only
C17_WrittenOnce ==
    /\ st_Succeeded =>
          /\ file = signedTxData(signedTx)
          /\ calls = <<"fromMnemonic", "getAccounts", "connectSigning", "getAccount",
                       "calculateFee", "sign", "writeFile", "disconnect">>
    /\ script = "signTransaction" => Count(calls, "writeFile") <= 1
    /\ (script = "signTransaction" /\ Has(calls, "writeFile")) =>
          /\ pc = "done"
          /\ Has(calls, "calculateFee") /\ Has(calls, "sign")

\* the file changes only in the step that calls writeFile
C17_OnlyTheWriteChangesTheFile ==
    (script = "signTransaction" /\ file' # file) =>
        /\ pc = "st_sign" /\ pc' = "done"
        /\ ~Has(calls, "writeFile") /\ Has(calls', "writeFile")

\* C17: the signed-transaction file is written exactly once per successful
\* sign-transaction run, as the last state-changing step, after fee
\* calculation and signing have both succeeded; on every other path
\* (missing parameter, unknown transaction type, account not found on
\* chain, fee or signing failure) no file is created or modified.
C17_FileWrittenLast == []C17_WrittenOnce /\ [][C17_OnlyTheWriteChangesTheFile]_vars

\* a run that replaced an older file by its own export
C17_Witness ==
    /\ st_Succeeded
    /\ env["OUTPUT_FILE"] = ""
    /\ argv[2] = ""
    /\ st_TX_TYPE = "transfer-nft"
    /\ file.path = "signed-tx.json"
    /\ file.txType = "transfer-nft"
    /\ file.sequence = 7
    /\ file.messages.kind = "transfer_nft"
    /\ signedTx = [kind |-> "Uint8Array", bytes |-> <<128>>]
    /\ file.signedTxBytes = <<<<"1", "2", "8">>>>
    /\ Count(calls, "writeFile") = 1
---------------------------------------------------------------------------
(* Export and broadcast.                                                   *)

\* a broadcast run has handed bytes to broadcastTx
Broadcast == script = "broadcastSignedTransaction" /\ sent.kind = "broadcast"

\* the round trip of a byte array through the file is exact
C18_ArrayRoundTrip ==
    Broadcast => sent.bytes = ArrayFrom(signedTx)

\* broadcastSignedTransaction signs nothing
C18_NoSigning ==
    script = "broadcastSignedTransaction" =>
        /\ ~Has(calls, "sign") /\ ~Has(calls, "signAmino")
        /\ ~Has(calls, "execute") /\ ~Has(calls, "sendTokens")

\* C18: the byte sequence broadcastSignedTransaction reconstructs from a
\* file and submits equals, byte for byte, the signed-transaction encoding
\* produced by the signing step of the sign-transaction run that wrote the
\* file, and the broadcast performs no signing of its own.
C18_RoundTrip ==
    /\ Broadcast => sent.bytes = signedTx.bytes
    /\ C18_NoSigning

\* a file written after client.sign returned a TxRaw: zero bytes are
\* submitted
C18_Witness ==
    /\ Broadcast
    /\ pc = "done"
    /\ error = NoError
    /\ signedTx = [kind |-> "TxRaw", bytes |-> <<10, 255, 0>>]
    /\ file.signedTxBytes = <<>>
    /\ sent.bytes = <<>>
    /\ calls = <<"readFile", "fromMnemonic", "connectSigning", "broadcastTx", "disconnect">>
---------------------------------------------------------------------------
(* Awaited calls: a run seen at the grain of issuing a network call and    *)
(* receiving its outcome.                                                  *)

\* the network calls a script awaits, in order, when each one yields
Awaits(s) ==
    CASE s \in {"mintToken", "transferNFT"} -> <<"connectSigning", "execute">>
      [] s = "transferGas" -> <<"connectSigning", "getBalance", "sendTokens", "getBalance">>
      [] s = "monitorTransaction" -> <<"connectQuery", "getTx">>
      [] s = "verifyOwnership" ->
             <<"connectQuery", "queryContractSmart", "queryContractSmart",
               "queryContractSmart">>
      [] s = "checkGasFee" -> <<"connectSigning", "simulate", "getBalance">>
      [] s = "deployContract" -> <<"connectSigning", "getBalance", "instantiate">>
      [] s = "signMessage" -> <<"connectSigning">>
      [] s = "signTransaction" -> <<"connectSigning", "getAccount", "calculateFee", "sign">>
      [] s = "broadcastSignedTransaction" -> <<"connectSigning", "broadcastTx">>
      [] OTHER -> <<>>

NetworkCalls == SelectSeq(calls, LAMBDA c : c \in ChainOps)

\* the runs of Spec that go through issue the calls of Awaits, in order
AwaitsAgree ==
    (/\ pc = "done" /\ error = NoError /\ client = "closed"
     /\ ~(script = "monitorTransaction" /\ mon_WAIT_FOR_TX))
        => NetworkCalls = Awaits(script)

InitAwait ==
    /\ script \in Scripts \cup {"waitForTransaction"}
    /\ env = [n \in EnvNames |-> ""]
    /\ argv = [i \in ArgPositions |-> ""]
    /\ pc = "run"
    /\ wallet = "none"
    /\ client = "none"
    /\ calls = <<>>
    /\ console = <<>>
    /\ exitCode = 0
    /\ error = NoError
    /\ tx = NoTx
    /\ txHash = "HASH_A"
    /\ maxAttempts \in (IF script = "waitForTransaction" THEN 0..MaxAttemptsBound ELSE {0})
    /\ pollI = 0
    /\ sleeps = 0
    /\ pollStatus = "idle"
    /\ amtIn = JsNum(Zero(FALSE))
    /\ amtDisplay = <<>>
    /\ amtBase = <<>>
    /\ InitAux

AwaitStep ==
    UNCHANGED <<inputs, wallet, client, amtVars, feeVars, sent, file, accountInfo, signerData, chain,
                reports, signedTx, txHash, maxAttempts>>

\* (variant) the next call is issued without awaiting the one before
aw_IssueWithoutAwait ==
    /\ script # "waitForTransaction"
    /\ pc \in {"run", "await"}
    /\ Len(calls) < Len(Awaits(script))
    /\ inflight' = Append(inflight, Awaits(script)[Len(calls) + 1])
    /\ calls' = Append(calls, Awaits(script)[Len(calls) + 1])
    /\ pc' = "await"
    /\ UNCHANGED <<console, exitCode, error, tx, pollI, sleeps, pollStatus>>
    /\ AwaitStep

\* `await <call>`: the call is issued and the function is suspended
aw_Issue ==
    /\ script # "waitForTransaction"
    /\ pc = "run"
    /\ Len(calls) < Len(Awaits(script))
    /\ inflight' = Append(inflight, Awaits(script)[Len(calls) + 1])
    /\ calls' = Append(calls, Awaits(script)[Len(calls) + 1])
    /\ pc' = "await"
    /\ UNCHANGED <<console, exitCode, error, tx, pollI, sleeps, pollStatus>>
    /\ AwaitStep

\* the awaited call yields or throws, and the function resumes
aw_Complete ==
    /\ script # "waitForTransaction"
    /\ pc = "await"
    /\ inflight # <<>>
    /\ inflight' = Tail(inflight)
    /\ \/ /\ pc' = IF Len(calls) = Len(Awaits(script)) THEN "done" ELSE "run"
          /\ UNCHANGED <<console, exitCode, error>>
       \/ \E e \in RemoteErrors : Catch(e)
    /\ UNCHANGED <<calls, tx, pollI, sleeps, pollStatus>>
    /\ AwaitStep

\* for (i < maxAttempts) { const tx = await getTransaction(client, txHash)
wft_IssueLookup ==
    /\ script = "waitForTransaction"
    /\ pc = "run"
    /\ pollI < maxAttempts
    /\ inflight' = Append(inflight, "getTx")
    /\ calls' = Append(calls, "getTx")
    /\ pc' = "await"
    /\ UNCHANGED <<console, exitCode, error, tx, pollI, sleeps, pollStatus>>
    /\ AwaitStep

\* the lookup yields null (the delay starts), yields a transaction
\* (returned), or throws
wft_LookupCompletes ==
    /\ script = "waitForTransaction"
    /\ pc = "await"
    /\ inflight # <<>>
    /\ inflight' = Tail(inflight)
    /\ \/ /\ pc' = "delay"
          /\ UNCHANGED <<console, exitCode, error, tx, pollStatus>>
       \/ \E c \in TxCodes :
             /\ tx' = IndexedTx(txHash, c)
             /\ pollStatus' = "found"
             /\ pc' = "done"
             /\ UNCHANGED <<console, exitCode, error>>
       \/ \E e \in RemoteErrors :
             /\ Catch(e)
             /\ pollStatus' = "failed"
             /\ UNCHANGED tx
    /\ UNCHANGED <<calls, pollI, sleeps>>
    /\ AwaitStep

\* await new Promise((resolve) => setTimeout(resolve, delayMs)); i++
wft_Delay ==
    /\ script = "waitForTransaction"
    /\ pc = "delay"
    /\ sleeps' = sleeps + 1
    /\ pollI' = pollI + 1
    /\ pc' = "run"
    /\ UNCHANGED <<calls, console, exitCode, error, tx, pollStatus, inflight>>
    /\ AwaitStep

\* the loop ends: throw new Error(`Transaction ... not found after ...`)
wft_GiveUp ==
    /\ script = "waitForTransaction"
    /\ pc = "run"
    /\ ~(pollI < maxAttempts)
    /\ pollStatus' = "exhausted"
    /\ Catch(NotIndexedError(txHash, maxAttempts))
    /\ UNCHANGED <<calls, tx, pollI, sleeps, inflight>>
    /\ AwaitStep

NextAwait ==
    \/ aw_Issue \/ aw_Complete
    \/ wft_IssueLookup \/ wft_LookupCompletes \/ wft_Delay \/ wft_GiveUp

SpecAwait == InitAwait /\ [][NextAwait]_vars

\* at most one call is in flight, and none while the run is running,
\* delaying or over
C19_State ==
    /\ Len(inflight) <= 1
    /\ pc # "await" => inflight = <<>>
    /\ pc = "await" => inflight = <<calls[Len(calls)]>>
    /\ script = "waitForTransaction" => Count(calls, "getTx") <= sleeps + 1

\* a call is issued only when none is in flight; the poller issues lookup
\* k + 1 only when k delays have elapsed
C19_Step ==
    calls' # calls =>
        /\ inflight = <<>>
        /\ Len(calls') = Len(calls) + 1
        /\ script = "waitForTransaction" => sleeps = Len(calls)

\* C19: within one run at most one network call is in flight at any time:
\* each call (connect, account lookup, balance query, simulate, sign,
\* execute, transaction lookup) completes before the next one is issued,
\* and the poller issues lookup k + 1 only after lookup k has completed and
\* the delay has elapsed.
C19_OneCallInFlight == []C19_State /\ [][C19_Step]_vars

\* the poller's third lookup is in flight after two delays
C19_Witness ==
    /\ script = "waitForTransaction"
    /\ pc = "await"
    /\ inflight = <<"getTx">>
    /\ calls = <<"getTx", "getTx", "getTx">>
    /\ sleeps = 2
    /\ pollI = 2
---------------------------------------------------------------------------
(* Lookups of monitor-transaction.                                         *)

\* C20: monitor-transaction with the wait flag issues at most 20
\* transaction lookups for the given hash and stops at the first one that
\* yields a transaction; without the wait flag it issues exactly one lookup
\* (once its connection is open).
C20_BoundedLookups ==
    script = "monitorTransaction" =>
        /\ \A i \in DOMAIN calls : calls[i] \in {"connectQuery", "getTx", "disconnect"}
        /\ mon_WAIT_FOR_TX =>
              /\ Lookups <= 20
              /\ tx # NoTx => (pc = "done" /\ Lookups = pollI + 1 /\ tx.hash = mon_TX_HASH)
              /\ pollStatus = "exhausted" => (Lookups = 20 /\ tx = NoTx)
        /\ ~mon_WAIT_FOR_TX =>
              /\ Lookups <= 1
              /\ pollStatus = "idle"
              /\ (pc = "done" /\ client # "none") => Lookups = 1

\* the twentieth lookup is the first to yield a transaction
C20_Witness ==
    /\ script = "monitorTransaction"
    /\ mon_WAIT_FOR_TX
    /\ pc = "done"
    /\ pollStatus = "found"
    /\ Lookups = 20
    /\ sleeps = 19
    /\ tx # NoTx
    /\ error = NoError
---------------------------------------------------------------------------
(* A lookup that finds nothing.                                            *)

\* lines monitor-transaction prints only for a transaction it has
TxDetailLines == {"TRANSACTION FOUND", "Status: SUCCESS", "Status: FAILED"}

\* the single lookup of a run without the wait flag gave null
mon_LookupGaveNull ==
    /\ script = "monitorTransaction"
    /\ ~mon_WAIT_FOR_TX
    /\ pc = "done"
    /\ Lookups = 1
    /\ ~tx.found
    /\ error = NoError

\* C21: a lookup of a hash the chain has no record of hands back the
\* not-found value and raises no error; monitor-transaction without the wait
\* flag then prints "Transaction not found!" as its last line, prints no
\* transaction details, and ends with exit status 0.  The notice is printed
\* in no other case.
C21_NotFoundIsAValue ==
    /\ mon_LookupGaveNull =>
          /\ tx = NoTx
          /\ console = <<"Transaction not found!">>
          /\ \A i \in DOMAIN console : console[i] \notin TxDetailLines
          /\ exitCode = 0
          /\ calls = <<"connectQuery", "getTx">>
    /\ (script = "monitorTransaction" /\ Has(console, "Transaction not found!")) =>
          mon_LookupGaveNull

C21_Witness ==
    /\ mon_LookupGaveNull
    /\ txHash = "HASH_B"
    /\ env["WAIT"] = "false"
    /\ console = <<"Transaction not found!">>
    /\ exitCode = 0
---------------------------------------------------------------------------
(* Owner and sender of a mint.                                             *)

\* OWNER_ADDRESS as the run was given it: the environment variable, else
\* the second positional argument, else nothing
GivenOwner ==
    IF env["OWNER_ADDRESS"] # "" THEN env["OWNER_ADDRESS"] ELSE argv[2]

\* C22: the mint message handed to the execute call names as owner the
\* OWNER_ADDRESS given (environment first, else second positional
\* argument) and, when none is given, the address of the first account of
\* the minting wallet; the sender of the execute call is that account's
\* address in every case, and execute is called once, after the wallet was
\* derived.
C22_MintOwnerDefault ==
    script = "mintToken" =>
        /\ Has(calls, "execute") <=> sent # NoMsg
        /\ sent # NoMsg =>
              /\ sent.kind = "mint"
              /\ GivenOwner # "" => sent.owner = GivenOwner
              /\ GivenOwner = "" => sent.owner = accountAddress
              /\ sent.sender = accountAddress
              /\ wallet = "derived"
              /\ Count(calls, "execute") = 1

\* no owner given: the token is minted to the minter
C22_Witness ==
    /\ script = "mintToken"
    /\ env["OWNER_ADDRESS"] = "" /\ argv[2] = ""
    /\ pc = "done"
    /\ error = NoError
    /\ Has(console, "NFT minted successfully!")
    /\ sent.owner = accountAddress
    /\ sent.sender = accountAddress

\* an owner given in the environment and another on the command line
C22_OwnerFromEnvironment ==
    /\ script = "mintToken"
    /\ env["OWNER_ADDRESS"] = "xion1owner" /\ argv[2] = "xion1argaddress"
    /\ pc = "done"
    /\ sent.owner = "xion1owner"
    /\ sent.sender = accountAddress
---------------------------------------------------------------------------
(* Where a generated mnemonic goes.                                        *)

\* the phrase appears in what was written to disk or handed to a client
MnemonicStoredOrSent ==
    \E m \in GeneratedMnemonics :
        \/ m \in {file.path, file.txType, file.messages.text, file.messages.owner}
        \/ m \in {sent.text, sent.owner, sent.recipient, sent.sender}

\* C23: a create-wallet run writes no file, opens no connection and issues
\* no chain call; the only calls it makes are the wallet library's generate
\* and getAccounts, and the phrase it generated appears on the console and
\* nowhere else (not on disk, not in a message to a client).
C23_MnemonicNotPersisted ==
    script = "createWallet" =>
        /\ file = NoFile
        /\ ~Has(calls, "writeFile")
        /\ client = "none"
        /\ NoChainOp
        /\ \A i \in DOMAIN calls : calls[i] \in {"generate", "getAccounts"}
        /\ sent = NoMsg
        /\ ~MnemonicStoredOrSent
        /\ wallet = "derived" =>
              \E m \in GeneratedMnemonics :
                  console = <<"Wallet created successfully!", "MNEMONIC PHRASE", m>>

C23_Witness ==
    /\ script = "createWallet"
    /\ pc = "done"
    /\ wallet = "derived"
    /\ calls = <<"generate", "getAccounts">>
    /\ console[3] = "zoo ... vote"
    /\ exitCode = 0
---------------------------------------------------------------------------
(* Delays of the poller.                                                   *)

\* a poller run that returned a transaction slept once between each two
\* consecutive lookups
C24_SleepsWhenFound ==
    (pollStatus = "found" /\ Lookups >= 1) => sleeps = Lookups - 1

\* C24: a run of waitForTransaction that has ended after k >= 1 lookups, by
\* returning a transaction or by exhausting its attempts, has slept exactly
\* k - 1 times.
C24_SleepsOnlyBetweenLookups ==
    (pollStatus \in {"found", "exhausted"} /\ Lookups >= 1) => sleeps = Lookups - 1

\* C24, where the code departs: three empty lookups, and a third delay
\* after the last of them before the not-indexed error is raised
C24_Witness ==
    /\ script = "waitForTransaction"
    /\ pollStatus = "exhausted"
    /\ maxAttempts = 3
    /\ Lookups = 3
    /\ sleeps = 3
    /\ error = NotIndexedError(txHash, 3)
---------------------------------------------------------------------------
(* The poller as a state machine.                                          *)

\* the event loop resumes the poller whenever the promise it awaits has
\* settled
SpecPollerLive == InitPoller /\ [][NextPoller]_vars /\ WF_vars(NextPoller)

PollerStates == {"pending", "found", "exhausted", "failed"}

\* the poller has ended: nothing it does follows
PollerStays == UNCHANGED <<calls, sleeps, pollI, pollStatus, tx, pc>>

\* C25: the poller starts in pending; unless a lookup throws (which ends it
\* in the failure of that lookup), it eventually reaches found or
\* exhausted, whatever maxAttempts is; found and exhausted are terminal (no
\* lookup and no delay follows them); and at no time have more than
\* maxAttempts lookups been issued.
C25_PollerStateMachine ==
    /\ pollStatus = "pending"
    /\ []((pollStatus \in PollerStates) /\ (Lookups <= maxAttempts))
    /\ []((pollStatus = "pending") <=> (pc # "done"))
    /\ []((pollStatus = "failed") => (error \in RemoteErrors))
    /\ ([](pollStatus # "failed")) => <>(pollStatus \in {"found", "exhausted"})
    /\ [][(pollStatus \in {"found", "exhausted"}) => PollerStays]_vars

C25_Witness ==
    /\ script = "waitForTransaction"
    /\ pollStatus = "exhausted"
    /\ maxAttempts = 2
    /\ Lookups = 2
    /\ txHash = "HASH_A"
    /\ pc = "done"
---------------------------------------------------------------------------
(* The balance check of transfer-gas.                                      *)

\* a string of decimal digits
WellFormedAmount(a) ==
    /\ Len(a) >= 1
    /\ \A i \in DOMAIN a : a[i] \in {"0", "1", "2", "3", "4", "5", "6", "7", "8", "9"}

\* the balance the run was told: the line printed under "Wallet Balance"
tg_QueriedBalance ==
    LET i == CHOOSE j \in DOMAIN console : console[j] = "Wallet Balance"
    IN  NatOfDigits(Chars(console[i + 1]), 1, 0)

tg_SendIssued == script = "transferGas" /\ Has(calls, "sendTokens")

\* a well-formed amount is sent only against a balance that covers it, and
\* an insufficient balance ends the run without a send
C26_GuardOnWellFormedAmounts ==
    /\ (tg_SendIssued /\ WellFormedAmount(sent.amount)) =>
          tg_QueriedBalance >= NatOfDigits(sent.amount, 1, 0)
    /\ (script = "transferGas" /\ Has(console, "Error: Insufficient balance!")) =>
          ~Has(calls, "sendTokens")

\* C26: transfer-gas issues the token send only when the requested
\* base-unit amount is a well-formed non-negative integer and the balance
\* it queried is at least that amount; with a lower balance, or an AMOUNT
\* that does not parse to a number, the run issues no send.
C26_BalanceGuard ==
    tg_SendIssued =>
        /\ WellFormedAmount(sent.amount)
        /\ tg_QueriedBalance >= NatOfDigits(sent.amount, 1, 0)

\* C26, where the code departs: AMOUNT=abc becomes the amount "NaN", which
\* no balance compares lower than, and sendTokens is called with it
C26_Witness ==
    /\ script = "transferGas"
    /\ env["AMOUNT"] = "abc"
    /\ Has(calls, "sendTokens")
    /\ sent.kind = "send"
    /\ sent.amount = <<"N", "a", "N">>
    /\ Has(console, "0")

\* a negative AMOUNT passes the check in the same way
C26_NegativeAmountSent ==
    /\ script = "transferGas"
    /\ env["AMOUNT"] = "-1.5"
    /\ Has(calls, "sendTokens")
    /\ sent.amount = <<"-", "1", "5", "0", "0", "0", "0", "0">>
---------------------------------------------------------------------------
(* Signing without submitting.                                             *)

\* calls that submit a transaction for execution
SubmittingCalls == {"execute", "sendTokens", "instantiate", "broadcastTx"}

\* the calls the step under way has added to the log
NewCalls == {calls'[i] : i \in (Len(calls) + 1)..Len(calls')}

\* C27: a sign-transaction run issues no call that submits a transaction
\* (no broadcast, execute, send or instantiate), and none of its steps
\* changes what the chain holds (the account's sequence number, the token's
\* owner); the chain changes only in a step that issues a submitting call,
\* and a broadcast is issued only by the broadcast operation.
C27_SigningNeverSubmits ==
    /\ [](script = "signTransaction" =>
             \A i \in DOMAIN calls : calls[i] \notin SubmittingCalls)
    /\ [][script = "signTransaction" => chain' = chain]_vars
    /\ [][chain' # chain => NewCalls \cap SubmittingCalls # {}]_vars
    /\ [](Has(calls, "broadcastTx") => script = "broadcastSignedTransaction")

\* a run that signed and wrote its file against sequence 7 left it at 7
C27_Witness ==
    /\ script = "signTransaction"
    /\ pc = "done"
    /\ error = NoError
    /\ Has(calls, "sign")
    /\ file # NoFile /\ file.path = st_OUTPUT_FILE
    /\ signerData.sequence = 7
    /\ chain.sequence = 7

\* the broadcast operation is what moves the chain
C27_BroadcastAccepted ==
    /\ script = "broadcastSignedTransaction"
    /\ pc = "done"
    /\ error = NoError
    /\ chain.sequence = 1
---------------------------------------------------------------------------
(* A sign-transaction run while the account is in use elsewhere.           *)

\* the highest sequence number the account reaches
MaxSequence == 2

\* a run that starts without an export file, against sequence 0
InitSigning ==
    /\ script = "signTransaction"
    /\ Init
    /\ file = NoFile
    /\ chain.sequence = 0

\* the chain accepts a transaction of the same account that another client
\* submitted
chain_OtherTxAccepted ==
    /\ script = "signTransaction"
    /\ chain.sequence < MaxSequence
    /\ chain' = Accepted(chain, "")
    /\ UNCHANGED <<inputs, chainVars, runVars, pollVars, amtVars, feeVars, sent, file,
                   accountInfo, signerData, reports, signedTx, inflight>>

NextSigning ==
    \/ st_LoadWallet \/ st_Connect \/ st_GetAccount \/ st_CalculateFee \/ st_Sign
    \/ chain_OtherTxAccepted

SpecSigning == InitSigning /\ [][NextSigning]_vars

\* this run signed and wrote its file
st_Exported ==
    /\ script = "signTransaction"
    /\ Has(calls, "writeFile")
    /\ error = NoError
    /\ pc = "done"

\* the account number in the file is the one signed with, and so is the
\* sequence whenever the chain's sequence did not move between the account
\* lookup and the signing call
C28_RecordedWhenUndisturbed ==
    st_Exported =>
        /\ file.accountNumber = signerData.accountNumber
        /\ file.sequence = accountInfo.sequence
        /\ accountInfo.sequence = signerData.sequence => file.sequence = signerData.sequence

\* C28: the account number and the sequence recorded in the
\* signed-transaction file are those the signed bytes of that file were
\* signed with, also when the chain accepts another transaction of the
\* account between the run's account lookup and its signing call.
C28_RecordedSignerData ==
    st_Exported =>
        /\ file.accountNumber = signerData.accountNumber
        /\ file.sequence = signerData.sequence

\* C28, where the code departs: the lookup saw sequence 0, another
\* transaction was accepted, the bytes were signed with sequence 1 and the
\* file says 0
C28_Witness ==
    /\ st_Exported
    /\ accountInfo.sequence = 0
    /\ file.sequence = 0
    /\ signerData.sequence = 1
    /\ chain.sequence = 1
---------------------------------------------------------------------------
(* A transaction type the switch does not know.                            *)

cgf_SupportedTypes == {"mint", "transfer-nft", "send-tokens", "instantiate"}

st_SupportedTypes == {"send-tokens", "mint-nft", "transfer-nft"}

cgf_UnknownType ==
    /\ script = "checkGasFee"
    /\ ToLowerCase(cgf_TRANSACTION_TYPE) \notin cgf_SupportedTypes

st_UnknownType ==
    /\ script = "signTransaction"
    /\ ToLowerCase(st_TX_TYPE) \notin st_SupportedTypes

\* how a run with an unknown type ends: with the list of supported types
\* and exit status 0, unless the wallet, the connection or the account
\* lookup failed before the switch was reached
EndsListingTypes(before) ==
    pc = "done" =>
        IF error = NoError
        THEN /\ exitCode = 0
             /\ console = <<"Unknown transaction type">>
        ELSE /\ calls = <<>> \/ calls[Len(calls)] \in before
             /\ ~Has(console, "Unknown transaction type")

\* C29: with a transaction type that is none of the supported ones
\* (compared in lower case), check-gas-fee issues no simulation and no
\* balance query, and sign-transaction issues no fee calculation and no
\* signing call and leaves the export file as it was; a run that got as
\* far as the switch ends with the list of supported types and exit status
\* 0.  The list is printed for no other type.
C29_UnknownTransactionType ==
    /\ [](cgf_UnknownType =>
             /\ ~Has(calls, "simulate") /\ ~Has(calls, "getBalance")
             /\ fee = NoFee /\ sent = NoMsg
             /\ EndsListingTypes({"fromMnemonic", "connectSigning"}))
    /\ [](st_UnknownType =>
             /\ ~Has(calls, "calculateFee") /\ ~Has(calls, "sign")
             /\ ~Has(calls, "writeFile")
             /\ signedTx = NoSigned /\ sent = NoMsg
             /\ EndsListingTypes({"fromMnemonic", "connectSigning", "getAccount"}))
    /\ [][st_UnknownType => file' = file]_vars
    /\ []((script \in {"checkGasFee", "signTransaction"}
           /\ Has(console, "Unknown transaction type"))
          => (cgf_UnknownType \/ st_UnknownType))

C29_Witness ==
    /\ script = "signTransaction"
    /\ env["TX_TYPE"] = "stake"
    /\ pc = "done"
    /\ calls = <<"fromMnemonic", "getAccounts", "connectSigning", "getAccount">>
    /\ console = <<"Unknown transaction type">>
    /\ exitCode = 0
    /\ file = NoFile

\* check-gas-fee with a type only sign-transaction knows
C29_GasFeeUnknown ==
    /\ script = "checkGasFee"
    /\ env["TX_TYPE"] = "mint-nft"
    /\ pc = "done"
    /\ console = <<"Unknown transaction type">>
    /\ exitCode = 0

\* an upper-case spelling of a supported type is signed
C29_UpperCaseSupported ==
    /\ script = "signTransaction"
    /\ env["TX_TYPE"] = "SEND-TOKENS"
    /\ pc = "done"
    /\ Has(calls, "sign")
    /\ file.txType = "SEND-TOKENS"
===========================================================================
